---- MODULE Spec2Model ----
(***************************************************************************)
(* Howl: LAN file transfer.  State-machine model of the file-serving       *)
(* Sender (LanSender), the upload-accepting Receiver (LanReceiver), the   *)
(* VerificationManager they share, and the send / receive commands of the  *)
(* CLI with their device discovery.                                        *)
(*                                                                         *)
(* Every HTTP handler runs to completion on the single event loop, so a    *)
(* handler is one action up to the point where it waits for I/O; the       *)
(* callbacks that run after the wait (res 'finish', the end of the request *)
(* body) are actions of their own and interleave with other requests.      *)
(***************************************************************************)
EXTENDS Integers, Sequences, FiniteSets, TLC

VARIABLES
    \* ---- LanSender ----
    senderServer,               \* the Sender's BaseHttpServer.server is defined
    files,                \* LanSender.files: the registered FileMetadata
    senderVm,             \* LanSender.verificationManager
    downloadCount,        \* LanSender.downloadCount
    maxDownloads,         \* LanSender.maxDownloads (0 = unlimited)
    requireVerification,  \* LanSender.requireVerification
    sReqs,                \* the GET requests handled so far, in arrival order
    sLast,                \* the request handled by the last Sender step
    sEmitted,             \* number of events emitted so far, per event name
    sServers,             \* the http.Server objects the Sender created, in order
    sStops,               \* the stopServer() calls made so far, in order
    sListeners,           \* the Sender's event listeners are registered
    sTokens,              \* tokens POST /verify handed out since the last stop call
    \* ---- LanReceiver (server role) ----
    receiverServer,       \* the Receiver's BaseHttpServer.server is defined
    uploadCount,          \* LanReceiver.uploadCount
    maxUploads,           \* LanReceiver.maxUploads (0 = unlimited)
    requirePerFileVerification,
    globalVerificationManager, \* id of the global manager, or NoMgr
    managers,             \* the VerificationManager objects created so far
    pendingUploads,       \* LanReceiver.pendingUploads: uploadId -> UploadRequest
    nextUploadId,         \* number of uploadIds generated so far
    uploadDir,            \* content of the upload directory: filename -> bytes
    now,                  \* Date.now(), in minutes
    rFlights,             \* POST /upload handlers waiting for the request body
    rLast,                \* the request handled by the last Receiver step
    rEmitted,             \* number of events emitted so far, per event name
    completedIds,         \* per uploadId: number of upload-completed events
    \* ---- a VerificationManager on its own ----
    verificationManager,  \* the manager: [verificationCode, verifiedSessions]
    vIssued,              \* the session tokens this manager has returned so far
    vLast,                \* the last call on the manager and what it returned
    \* ---- the CLI: DeviceDiscoveryService and the selection flow ----
    mode,                 \* DeviceDiscoveryService.options.mode
    devices,              \* DeviceDiscoveryService.devices: the services found
    selectionTimeout,     \* startDiscovery's timer: [state, due]
    shouldShowMenu,       \* startDiscovery's flag, set by the timer
    browser,              \* LanDiscovery.browser is defined (the search runs)
    publishedService,     \* LanDiscovery.publishedService is defined
    clock,                \* the time, in seconds
    pc,                   \* where sendViaLan / receiveViaLan is waiting
    choices,              \* the devices the select prompt offers; once the
                          \* menu has returned, the device it returned
    research,             \* researchDevices: [startTime, hasInitialDevices], with the
                          \* services that came up during it and the time it resolved
    outcome,              \* how the selection flow ended
    firstFound,           \* the time the first service passed the role filter
    sinceEmpty,           \* whether a service came up since the menu found none
    \* ---- a LanDiscovery on its own ----
    discoveredServices,   \* LanDiscovery.discoveredServices: one ServiceInfo per id
    bonjour,              \* LanDiscovery.bonjour: "alive" or "destroyed"
    browserServices,      \* the services the browser has announced and not withdrawn
    discoveryListeners,   \* a listener is registered on the LanDiscovery
    destroys,             \* what each destroy() so far found on the instance
    \* ---- LanReceiver as a client: verify, download, upload ----
    sessionToken,         \* LanReceiver.sessionToken
    call,                 \* the client call under way, or the last one
    lastVerify,           \* what the last verify() returned
    outFile,              \* the file at outputPath: [exists, bytes]
    sourceFile,           \* the bytes of the file the Sender serves
    \* ---- Range headers ----
    rangeCall             \* the last Range header handled and what came of it

\* the part of the Sender that only starting and stopping touch
stopVars == <<sServers, sStops, sListeners>>
senderVars == <<senderServer, files, senderVm, downloadCount, maxDownloads,
                requireVerification, sReqs, sLast, sEmitted, stopVars, sTokens>>
receiverVars == <<receiverServer, uploadCount, maxUploads, requirePerFileVerification,
                  globalVerificationManager, managers, pendingUploads,
                  nextUploadId, uploadDir, now, rFlights, rLast, rEmitted,
                  completedIds>>
vmVars == <<verificationManager, vIssued, vLast>>
\* the state of everything but the Sender and the Receiver
cliVars == <<mode, devices, selectionTimeout, shouldShowMenu, browser, publishedService,
             clock, pc, choices, research, outcome, firstFound, sinceEmpty>>
discVars == <<discoveredServices, bonjour, browserServices, discoveryListeners,
              destroys>>
\* the state of the components that came after the CLI
clientVars == <<sessionToken, call, lastVerify, outFile, sourceFile>>
utilVars == <<rangeCall>>
otherVars == <<discVars, clientVars, utilVars>>
\* the CLI's state that a LanDiscovery on its own leaves alone
flowVars == <<mode, devices, selectionTimeout, shouldShowMenu, clock, pc, choices,
              research, outcome, firstFound, sinceEmpty>>
restVars == <<vmVars, cliVars, otherVars>>
vars == <<senderVars, receiverVars, restVars>>

----------------------------------------------------------------------------
\* Bounds of the model.
MaxReq == 2          \* GET requests a Sender run handles
MaxQuota == 1        \* largest limit given to setMaxDownloads / setMaxUploads
MaxUploadIds == 2    \* POST /request-upload requests that are accepted
MaxFlights == 1      \* POST /upload requests waiting for their body at one time
MaxTime == 6         \* the clock stops here (minutes)
MaxFailTracked == 2  \* rejected codes in a row are counted up to here
MaxStarts == 2       \* start() calls on one Sender
MaxFileLen == 2      \* bytes of the longest file
MaxDestroys == 2     \* destroy() calls on one LanDiscovery
MaxClock == 9        \* the CLI's clock stops here (seconds)
MaxLimit == 2        \* --limit of the send command
MaxStops == 2        \* stopServer() / stop() / destroy() calls on one Sender
MaxHeaderLen == 4    \* symbols of the longest Range header
MaxSize == 3         \* bytes of the largest file a Range header is applied to

----------------------------------------------------------------------------
\* JavaScript values.  A header or query parameter that is absent reads as
\* undefined / null; both, and the empty string, are falsy.
Undefined == "undefined"
Falsy == {Undefined, ""}
Truthy(v) == v \notin Falsy
\* a || b
OrElse(a, b) == IF Truthy(a) THEN a ELSE b

\* Session tokens: Math.random().toString(36).substring(2), opaque strings.
\* The generator keeps no record of what it returned: a call can return any
\* token of the pool.  Math.random() = 0 prints as "0", whose substring(2) is
\* the empty string.
TokenPool == {"", "t1"}
\* Verification codes, as typed by a client: the digits and whether the
\* string carries surrounding white space.
CodeDigits == {"111111", "222222"}
CodeStrings == [digits : CodeDigits, padded : BOOLEAN]
\* String.prototype.trim
Trim(s) == [s EXCEPT !.padded = FALSE]

----------------------------------------------------------------------------
\* VerificationManager: [verificationCode, verifiedSessions].

\* generateCode: the codes a new manager can draw
generateCode == {[digits |-> d, padded |-> FALSE] : d \in CodeDigits}

\* generateSessionToken: the tokens a call can return
generateSessionToken == TokenPool

NewVerificationManager(code) ==
    [verificationCode |-> code, verifiedSessions |-> {}]

isSessionVerified(vm, token) ==
    IF ~Truthy(token) THEN FALSE ELSE token \in vm.verifiedSessions

\* Mutant: every code is taken for the manager's code.
CodeMatches_Any(vm, code) == TRUE

\* Mutant: a code is only required to be present.
CodeMatches_Present(vm, code) == code.digits # ""

\* trimmedCode === this.verificationCode
CodeMatches(vm, code) == Trim(code) = vm.verificationCode

\* verifyAndCreateSession(code) with the token the generator returned:
\* the result and the manager afterwards
verifyAndCreateSession(vm, code, tok) ==
    IF CodeMatches(vm, code)
    THEN [valid |-> TRUE, sessionToken |-> tok,
          vm |-> [vm EXCEPT !.verifiedSessions = @ \cup {tok}]]
    ELSE [valid |-> FALSE, sessionToken |-> Undefined, vm |-> vm]

clearSessions(vm) == [vm EXCEPT !.verifiedSessions = {}]

\* regenerateCode
regenerateCode(mgr, code) == [mgr EXCEPT !.verificationCode = code]

\* The calls on a VerificationManager taken alone.  vLast keeps, for the last
\* call, the argument, the manager's code when the call was made, the result
\* and whether the returned token had been returned before.
VNone == [op |-> "none", code |-> [digits |-> "", padded |-> FALSE],
          vcode |-> [digits |-> "", padded |-> FALSE], valid |-> FALSE,
          token |-> Undefined, fresh |-> FALSE, added |-> FALSE]

\* what a caller can pass as the code: a code string or nothing at all
CodeArguments == CodeStrings \cup {[digits |-> "", padded |-> FALSE]}

\* a manager that has not been constructed
NullManager == [verificationCode |-> [digits |-> "", padded |-> FALSE],
                verifiedSessions |-> {}]

\* new VerificationManager()
VmNew(code) ==
    /\ verificationManager = NullManager
    /\ verificationManager' = NewVerificationManager(code)
    /\ vLast' = [VNone EXCEPT !.op = "new"]
    /\ UNCHANGED <<vIssued, senderVars, receiverVars, cliVars, otherVars>>

VmVerify(code, tok) ==
    /\ verificationManager # NullManager
    /\ LET result == verifyAndCreateSession(verificationManager, code, tok)
       IN /\ verificationManager' = result.vm
          /\ vIssued' = IF result.valid THEN vIssued \cup {tok} ELSE vIssued
          /\ vLast' = [op |-> "verify", code |-> code,
                       vcode |-> verificationManager.verificationCode,
                       valid |-> result.valid, token |-> result.sessionToken,
                       fresh |-> result.valid /\ tok \notin vIssued,
                       added |-> result.vm.verifiedSessions #
                                    verificationManager.verifiedSessions]
    /\ UNCHANGED <<senderVars, receiverVars, cliVars, otherVars>>

VmRegenerateCode(code) ==
    /\ verificationManager # NullManager
    /\ code # verificationManager.verificationCode
    /\ verificationManager' = regenerateCode(verificationManager, code)
    /\ vLast' = [VNone EXCEPT !.op = "regenerate"]
    /\ UNCHANGED <<vIssued, senderVars, receiverVars, cliVars, otherVars>>

VmClearSessions ==
    /\ verificationManager.verifiedSessions # {}
    /\ verificationManager' = clearSessions(verificationManager)
    /\ vLast' = [VNone EXCEPT !.op = "clear"]
    /\ UNCHANGED <<vIssued, senderVars, receiverVars, cliVars, otherVars>>

VmInit ==
    /\ verificationManager = NullManager
    /\ vIssued = {}
    /\ vLast = VNone

VmNext ==
    \/ \E code \in generateCode : VmNew(code)
    \/ \E code \in CodeArguments :
          \E tok \in (IF CodeMatches(verificationManager, code) THEN generateSessionToken
                      ELSE {CHOOSE t \in generateSessionToken : TRUE}) :
             VmVerify(code, tok)
    \/ \E code \in generateCode : VmRegenerateCode(code)
    \/ VmClearSessions

----------------------------------------------------------------------------
\* LanSender

\* The one file a Sender run serves (FileMetadata id and name).
TheFile == [id |-> "id1", name |-> "myfile.txt"]
\* path.basename of the request path: the id, the name, or neither
Paths == {"id1", "myfile.txt", "nope"}
\* Range header: absent, one that fs.createReadStream accepts, or one whose
\* start/end make fs.createReadStream throw
RangeHeaders == {"none", "ok", "throws"}
\* what a request can carry as a token: nothing, a token of the pool, or a
\* string the generator never returns
TokenInputs == TokenPool \cup {Undefined, "zz"}

SenderCounted == {"transfer-started", "transfer-completed", "download-limit-reached",
                  "server-stopped", "stopped"}

SIdle == [op |-> "none", path |-> "", qtoken |-> Undefined, htoken |-> Undefined,
          range |-> "none", status |-> 0, events |-> {}, req |-> 0]

\* sLast describes the request the last step handled.  It is an observation,
\* no state of the Sender: it is cleared before the next request is handled.
SenderIdle == sLast = SIdle

SenderSettle ==
    /\ ~SenderIdle
    /\ sLast' = SIdle
    /\ UNCHANGED <<senderServer, files, senderVm, downloadCount, maxDownloads,
                   requireVerification, sReqs, sEmitted, stopVars, sTokens, receiverVars, restVars>>

Bump(counts, evs) == [e \in DOMAIN counts |-> IF e \in evs THEN counts[e] + 1 ELSE counts[e]]

\* this.emit(...) on the Sender: an event is delivered while listeners are
\* registered (destroy() ends with removeAllListeners())
Emit(counts, evs) == IF sListeners THEN Bump(counts, evs) ELSE counts

\* some http.Server of this Sender accepts connections
Listening == \E g \in 1..Len(sServers) : sServers[g].state = "listening"

\* this.files.get(fileId), else the first entry whose name is fileId
FindFile(fs, fileId) ==
    IF \E f \in fs : f.id = fileId THEN {f \in fs : f.id = fileId}
    ELSE {f \in fs : f.name = fileId}

\* Mutant: the limit is taken as reached one download late.
DownloadLimitReached_OffByOne(count, max) == max > 0 /\ count > max

\* maxDownloads > 0 && downloadCount >= maxDownloads
DownloadLimitReached(count, max) == max > 0 /\ count >= max

\* setMaxDownloads / setRequireVerification: HttpServerManager configures the
\* Sender between construction and start()
setMaxDownloads(max) ==
    /\ SenderIdle /\ ~senderServer /\ sReqs = <<>> /\ max # maxDownloads
    /\ maxDownloads' = max
    /\ sLast' = SIdle
    /\ UNCHANGED <<senderServer, files, senderVm, downloadCount, requireVerification,
                   sReqs, sEmitted, stopVars, sTokens, receiverVars, restVars>>

setRequireVerification(required) ==
    /\ SenderIdle /\ ~senderServer /\ sReqs = <<>> /\ required # requireVerification
    /\ requireVerification' = required
    /\ sLast' = SIdle
    /\ UNCHANGED <<senderServer, files, senderVm, downloadCount, maxDownloads,
                   sReqs, sEmitted, stopVars, sTokens, receiverVars, restVars>>

\* start(fileMetadata)
SenderStart ==
    /\ SenderIdle /\ ~senderServer /\ Len(sServers) < MaxStarts
    /\ files' = files \cup {TheFile}
    /\ senderServer' = TRUE
    /\ sServers' = Append(sServers, [state |-> "listening", idle |-> FALSE])
    /\ sLast' = SIdle
    /\ UNCHANGED <<senderVm, downloadCount, maxDownloads, requireVerification,
                   sReqs, sEmitted, sStops, sListeners, sTokens, receiverVars, restVars>>

\* Mutant: a request that carries no token passes the verification gate.
GetOutcome_NoTokenGate(path, token, range) ==
    IF FindFile(files, path) = {}
    THEN [status |-> 404, events |-> {"connection"}, phase |-> "done"]
    ELSE IF requireVerification /\ Truthy(token) /\ ~isSessionVerified(senderVm, token)
    THEN [status |-> 403, events |-> {"connection", "verification-required"},
          phase |-> "done"]
    ELSE IF DownloadLimitReached(downloadCount, maxDownloads)
    THEN [status |-> 429, events |-> {"connection"}, phase |-> "done"]
    ELSE IF range = "none"
    THEN [status |-> 200, events |-> {"connection", "transfer-started"},
          phase |-> "streaming"]
    ELSE IF range = "throws"
    THEN [status |-> 206, events |-> {"connection"}, phase |-> "failed"]
    ELSE [status |-> 206, events |-> {"connection", "transfer-started"},
          phase |-> "streaming"]

\* Status and events of handleRequest for a GET that reaches the download
\* branch, before any byte is streamed.
GetOutcome(path, token, range) ==
    IF FindFile(files, path) = {}
    THEN [status |-> 404, events |-> {"connection"}, phase |-> "done"]
    ELSE IF requireVerification /\ ~isSessionVerified(senderVm, token)
    THEN [status |-> 403, events |-> {"connection", "verification-required"},
          phase |-> "done"]
    ELSE IF DownloadLimitReached(downloadCount, maxDownloads)
    THEN [status |-> 429, events |-> {"connection"}, phase |-> "done"]
    ELSE IF range = "none"
    THEN [status |-> 200, events |-> {"connection", "transfer-started"},
          phase |-> "streaming"]
    ELSE IF range = "throws"
    THEN [status |-> 206, events |-> {"connection"}, phase |-> "failed"]
    ELSE [status |-> 206, events |-> {"connection", "transfer-started"},
          phase |-> "streaming"]

\* handleRequest, GET /<fileId>[?token=]
SenderGet(path, qtoken, htoken, range) ==
    /\ SenderIdle /\ Listening /\ Len(sReqs) < MaxReq
    /\ LET token == OrElse(qtoken, htoken)
           out == GetOutcome(path, token, range)
       IN /\ sReqs' = Append(sReqs, [status |-> out.status, phase |-> out.phase,
                                     started |-> "transfer-started" \in out.events,
                                     completed |-> 0, ended |-> FALSE])
          /\ sLast' = [op |-> "GET", path |-> path, qtoken |-> qtoken,
                       htoken |-> htoken, range |-> range, status |-> out.status,
                       events |-> out.events, req |-> Len(sReqs) + 1]
          /\ sEmitted' = Emit(sEmitted, out.events)
    /\ UNCHANGED <<senderServer, files, senderVm, downloadCount, maxDownloads,
                   requireVerification, stopVars, sTokens, receiverVars, restVars>>

\* res.on('finish') of a download (the Range branch and the full branch run
\* the same statements)
FinishEvents(count, max) ==
    {"transfer-completed"} \cup
    (IF DownloadLimitReached(count, max) THEN {"download-limit-reached"} ELSE {})

SenderFinish(i) ==
    /\ SenderIdle /\ i \in 1..Len(sReqs) /\ sReqs[i].phase = "streaming"
    /\ downloadCount' = downloadCount + 1
    /\ LET evs == FinishEvents(downloadCount + 1, maxDownloads)
       IN /\ sEmitted' = Emit(sEmitted, evs)
          /\ sLast' = [SIdle EXCEPT !.op = "finish", !.events = evs, !.req = i]
    /\ sReqs' = [sReqs EXCEPT ![i].phase = "finished", ![i].completed = @ + 1]
    /\ UNCHANGED <<senderServer, files, senderVm, maxDownloads, requireVerification,
                   stopVars, sTokens, receiverVars, restVars>>

\* The client closes the connection before the response is flushed: 'finish'
\* never fires for this request.
SenderAbort(i) ==
    /\ SenderIdle /\ i \in 1..Len(sReqs) /\ sReqs[i].phase = "streaming"
    /\ sReqs' = [sReqs EXCEPT ![i].phase = "aborted"]
    /\ sLast' = [SIdle EXCEPT !.op = "abort", !.req = i]
    /\ UNCHANGED <<senderServer, files, senderVm, downloadCount, maxDownloads,
                   requireVerification, sEmitted, stopVars, sTokens, receiverVars, restVars>>

\* handleVerification, POST /verify.  body: JSON that does not parse, JSON
\* without a code, or JSON with a code string.
VerifyBodies == {[kind |-> "badjson", code |-> c] : c \in {CHOOSE c \in CodeStrings : TRUE}}
                \cup {[kind |-> "nocode", code |-> c] : c \in {CHOOSE c \in CodeStrings : TRUE}}
                \cup {[kind |-> "code", code |-> c] : c \in CodeStrings}

SenderVerify(body, tok) ==
    /\ SenderIdle /\ Listening
    /\ IF body.kind = "badjson"
       THEN /\ sLast' = [SIdle EXCEPT !.op = "verify", !.status = 400]
            /\ UNCHANGED <<senderVm, sTokens>>
       ELSE LET result == IF body.kind = "nocode"
                          THEN [valid |-> FALSE, sessionToken |-> Undefined, vm |-> senderVm]
                          ELSE verifyAndCreateSession(senderVm, Trim(body.code), tok)
                ok == result.valid /\ Truthy(result.sessionToken)
            IN /\ senderVm' = result.vm
               /\ sTokens' = IF ok THEN sTokens \cup {result.sessionToken} ELSE sTokens
               /\ sLast' = [SIdle EXCEPT !.op = "verify", !.status = 200,
                              !.htoken = IF ok THEN result.sessionToken ELSE Undefined,
                              !.events = IF ok THEN {"verified"} ELSE {"verification-failed"}]
    /\ UNCHANGED <<senderServer, files, downloadCount, maxDownloads, requireVerification,
                   sReqs, sEmitted, stopVars, receiverVars, restVars>>

\* The callers of stopServer(): BaseHttpServer.stopServer() itself, stop()
\* (stopServer, then emit 'stopped') and destroy() (stop, then
\* removeAllListeners).
StopKinds == {"stopServer", "stop", "destroy"}

\* LanSender.cleanup() run n times in a row, together with what the resolved
\* promises set off afterwards: nStopped continuations emit 'stopped' and,
\* if one of them is destroy()'s, the listeners are removed at the end.
SenderCleanup(n, nStopped, destroyed) ==
    /\ senderServer' = FALSE
    /\ files' = {}
    /\ senderVm' = clearSessions(senderVm)
    /\ sEmitted' = IF sListeners
                   THEN [sEmitted EXCEPT !["server-stopped"] = @ + n,
                                         !["stopped"] = @ + nStopped]
                   ELSE sEmitted
    /\ sListeners' = (sListeners /\ ~destroyed)

\* the continuation of a call of this kind emits 'stopped'
EmitsStopped(kind) == kind # "stopServer"

\* req.socket.destroy() for every request in activeConnections: the
\* downloads that are streaming never finish
DestroyActive(reqs) ==
    [i \in 1..Len(reqs) |->
        IF reqs[i].phase = "streaming" THEN [reqs[i] EXCEPT !.phase = "aborted"]
        ELSE reqs[i]]

\* a stopServer() call that finds no timer to wait for
forceCloseTimer_Unset == "none"

\* const forceCloseTimer = setTimeout(..., 1000)
forceCloseTimer == "armed"

\* stopServer() with a server: the timer is armed and server.close() is
\* called, the server stops listening.
StopOnServer(kind, idle) ==
    /\ Len(sStops) < MaxStops
    /\ sStops' = Append(sStops, [kind |-> kind, server |-> Len(sServers),
                                 timer |-> forceCloseTimer, close |-> "pending",
                                 resolved |-> FALSE])
    /\ sServers' = [sServers EXCEPT ![Len(sServers)] =
                       [state |-> "closing",
                        idle |-> IF @.state = "listening" THEN idle ELSE @.idle]]

\* stopServer(), the executor of the promise.  idle: a connection of the
\* server that carries no request (so it is not in activeConnections) is open.
SenderStopCall(kind, idle) ==
    /\ Len(sStops) < MaxStops
    /\ sTokens' = {}
    /\ sLast' = SIdle
    /\ IF ~senderServer
       THEN /\ SenderCleanup(1, IF EmitsStopped(kind) THEN 1 ELSE 0, kind = "destroy")
            /\ sStops' = Append(sStops, [kind |-> kind, server |-> 0,
                                         timer |-> "none", close |-> "none",
                                         resolved |-> TRUE])
            /\ UNCHANGED <<sServers, sReqs>>
       ELSE /\ StopOnServer(kind, idle)
            /\ sReqs' = DestroyActive(sReqs)
            /\ UNCHANGED <<senderServer, files, senderVm, sEmitted, sListeners>>
    /\ UNCHANGED <<downloadCount, maxDownloads, requireVerification,
                   receiverVars, restVars>>

\* the promise of call k has been resolved
Resolved(k) == sStops[k].resolved

\* the forceCloseTimer of call k fires, one second after the call: the
\* graceful close has not completed by then, a connection is still open
SenderForceClose(k) ==
    /\ k \in 1..Len(sStops) /\ sStops[k].timer = "armed"
    /\ sServers[sStops[k].server].idle
    /\ sStops' = [sStops EXCEPT ![k].timer = "fired", ![k].resolved = TRUE]
    /\ sReqs' = DestroyActive(sReqs)
    /\ SenderCleanup(1, IF EmitsStopped(sStops[k].kind) THEN 1 ELSE 0,
                     sStops[k].kind = "destroy")
    /\ sLast' = SIdle
    /\ UNCHANGED <<downloadCount, maxDownloads, requireVerification, sServers,
                   sTokens, receiverVars, restVars>>

\* the stopServer() calls whose server.close() callback waits for server g
PendingClose(g) == {k \in 1..Len(sStops) : sStops[k].server = g /\ sStops[k].close = "pending"}

\* Server g emits 'close': it has stopped listening and its last connection
\* is gone.  Every callback given to server.close() runs, one after the other.
SenderServerClosed(g) ==
    /\ g \in 1..Len(sServers) /\ sServers[g].state = "closing" /\ ~sServers[g].idle
    /\ PendingClose(g) # {}
    /\ LET first == {k \in PendingClose(g) : ~Resolved(k)}
       IN /\ sStops' = [k \in 1..Len(sStops) |->
                          IF k \in PendingClose(g)
                          THEN [sStops[k] EXCEPT !.close = "called", !.resolved = TRUE,
                                   !.timer = IF @ = "armed" THEN "cleared" ELSE @]
                          ELSE sStops[k]]
          /\ SenderCleanup(Cardinality(PendingClose(g)),
                           Cardinality({k \in first : EmitsStopped(sStops[k].kind)}),
                           \E k \in first : sStops[k].kind = "destroy")
    /\ sLast' = SIdle
    /\ UNCHANGED <<downloadCount, maxDownloads, requireVerification, sServers, sReqs,
                   sTokens, receiverVars, restVars>>

\* the client closes the connection that carried no request
SenderIdleClose(g) ==
    /\ g \in 1..Len(sServers) /\ sServers[g].idle
    /\ sServers' = [sServers EXCEPT ![g].idle = FALSE]
    /\ UNCHANGED <<senderServer, files, senderVm, downloadCount, maxDownloads,
                   requireVerification, sReqs, sLast, sEmitted, sStops, sListeners,
                   sTokens, receiverVars, restVars>>

\* the idle connections stopServer() can meet
IdleAtStop ==
    IF senderServer /\ sServers[Len(sServers)].state = "listening"
    THEN BOOLEAN ELSE {FALSE}

SenderInit ==
    /\ senderServer = FALSE
    /\ files = {}
    /\ senderVm \in {NewVerificationManager(c) : c \in generateCode}
    /\ downloadCount = 0
    /\ maxDownloads = 0
    /\ requireVerification = TRUE
    /\ sReqs = <<>>
    /\ sLast = SIdle
    /\ sEmitted = [e \in SenderCounted |-> 0]
    /\ sServers = <<>>
    /\ sStops = <<>>
    /\ sListeners = TRUE
    /\ sTokens = {}

SenderNext ==
    \/ \E max \in 0..MaxQuota : setMaxDownloads(max)
    \/ \E required \in BOOLEAN : setRequireVerification(required)
    \/ SenderStart
    \/ \E path \in Paths, qtoken \in TokenInputs, htoken \in TokenInputs,
          range \in RangeHeaders : SenderGet(path, qtoken, htoken, range)
    \/ \E i \in 1..MaxReq : SenderFinish(i)
    \/ \E i \in 1..MaxReq : SenderAbort(i)
    \/ \E body \in VerifyBodies, tok \in generateSessionToken : SenderVerify(body, tok)
    \/ SenderSettle

\* The life of a Sender that is started, stopped and started again while
\* clients verify and download with the token they were given.
SenderLifeNext ==
    \/ SenderStart
    \/ \E body \in VerifyBodies, tok \in generateSessionToken : SenderVerify(body, tok)
    \/ \E htoken \in TokenInputs : SenderGet(TheFile.id, Undefined, htoken, "none")
    \/ \E i \in 1..MaxReq : SenderFinish(i)
    \/ SenderSettle
    \/ \E kind \in StopKinds, idle \in IdleAtStop : SenderStopCall(kind, idle)
    \/ \E k \in 1..MaxStops : SenderForceClose(k)
    \/ \E g \in 1..MaxStarts : SenderServerClosed(g)
    \/ \E g \in 1..MaxStarts : SenderIdleClose(g)

\* The send command of the CLI (Send.sendViaLan with its event handlers).

\* --limit
Limits == 0..MaxLimit

\* process.exit(0) in the then() of a sender.stop() that has resolved
CliExited == \E k \in 1..Len(sStops) : Resolved(k)

\* HttpServerManager.startSenderServer: new LanSender, setMaxDownloads,
\* setRequireVerification, start
CliSendStart(limit, noVerification) ==
    /\ ~senderServer /\ sServers = <<>> /\ sStops = <<>>
    /\ maxDownloads' = limit
    /\ requireVerification' = ~noVerification
    /\ files' = files \cup {TheFile}
    /\ senderServer' = TRUE
    /\ sServers' = Append(sServers, [state |-> "listening", idle |-> FALSE])
    /\ sLast' = SIdle
    /\ UNCHANGED <<senderVm, downloadCount, sReqs, sEmitted, sStops, sListeners, sTokens,
                   receiverVars, restVars>>

\* stream.on('end') of a full download: 'completed' is emitted and the
\* handler of the send command calls sender.stop().  The handler runs before
\* pipe() ends the response; flushed: the response still finishes although
\* its socket was destroyed.  this.server is set whenever a handler runs,
\* the process exits as soon as a stop() has resolved.
CliStreamEnd(i, idle, flushed) ==
    /\ ~CliExited /\ SenderIdle /\ senderServer
    /\ i \in 1..Len(sReqs) /\ sReqs[i].phase = "streaming"
    /\ sReqs[i].status = 200 /\ ~sReqs[i].ended
    /\ StopOnServer("stop", idle)
    /\ LET destroyed == DestroyActive([sReqs EXCEPT ![i].ended = TRUE])
       IN sReqs' = IF flushed THEN [destroyed EXCEPT ![i].phase = "streaming"]
                   ELSE destroyed
    /\ sTokens' = {}
    /\ sLast' = [SIdle EXCEPT !.op = "end", !.events = {"completed"}, !.req = i]
    /\ UNCHANGED <<senderServer, files, senderVm, downloadCount, maxDownloads,
                   requireVerification, sEmitted, sListeners, receiverVars, restVars>>

\* res.on('finish') of a download; on 'download-limit-reached' the handler
\* of the send command calls sender.stop().
CliFinish(i, idle) ==
    /\ ~CliExited /\ SenderIdle /\ senderServer
    /\ i \in 1..Len(sReqs) /\ sReqs[i].phase = "streaming"
    /\ sReqs[i].status = 200 => sReqs[i].ended
    /\ downloadCount' = downloadCount + 1
    /\ LET evs == FinishEvents(downloadCount + 1, maxDownloads)
           finished == [sReqs EXCEPT ![i].phase = "finished", ![i].completed = @ + 1]
       IN /\ sEmitted' = Emit(sEmitted, evs)
          /\ sLast' = [SIdle EXCEPT !.op = "finish", !.events = evs, !.req = i]
          /\ IF "download-limit-reached" \in evs
             THEN /\ StopOnServer("stop", idle)
                  /\ sReqs' = DestroyActive(finished)
                  /\ sTokens' = {}
             ELSE /\ sReqs' = finished
                  /\ UNCHANGED <<sStops, sServers, sTokens>>
    /\ UNCHANGED <<senderServer, files, senderVm, maxDownloads, requireVerification,
                   sListeners, receiverVars, restVars>>

CliSendNext ==
    \/ \E limit \in Limits, noVerification \in BOOLEAN : CliSendStart(limit, noVerification)
    \/ \E body \in VerifyBodies, tok \in generateSessionToken :
          ~CliExited /\ SenderVerify(body, tok)
    \/ \E htoken \in TokenInputs, range \in {"none", "ok"} :
          ~CliExited /\ SenderGet(TheFile.id, Undefined, htoken, range)
    \/ \E i \in 1..MaxReq, idle \in IdleAtStop, flushed \in BOOLEAN :
          CliStreamEnd(i, idle, flushed)
    \/ \E i \in 1..MaxReq, idle \in IdleAtStop : CliFinish(i, idle)
    \/ ~CliExited /\ SenderSettle
    \/ \E k \in 1..MaxStops : ~CliExited /\ SenderForceClose(k)
    \/ \E g \in 1..MaxStarts : ~CliExited /\ SenderServerClosed(g)
    \/ \E g \in 1..MaxStarts : ~CliExited /\ SenderIdleClose(g)

\* Starting and stopping alone.
SenderStopNext ==
    \/ SenderStart
    \/ \E kind \in StopKinds, idle \in IdleAtStop : SenderStopCall(kind, idle)
    \/ \E k \in 1..MaxStops : SenderForceClose(k)
    \/ \E g \in 1..MaxStarts : SenderServerClosed(g)
    \/ \E g \in 1..MaxStarts : SenderIdleClose(g)

\* The event loop runs a timer that is due and delivers the 'close' event of
\* a server that has no connection left; a client is free to keep its
\* connection open for ever.
SenderStopFairness ==
    /\ \A k \in 1..MaxStops : WF_vars(SenderForceClose(k))
    /\ \A g \in 1..MaxStarts : WF_vars(SenderServerClosed(g))

----------------------------------------------------------------------------
\* FileUtils: sha-256 and the multipart parser, over byte strings written as
\* sequences of symbols.  "B" is the delimiter "--<boundary>", "N" is CRLF,
\* "D" is "--", "F" is a Content-Disposition line with filename="...", "P" is
\* a Content-Disposition line without a filename, "T" is a Content-Type line;
\* any other symbol is a data byte.

\* File contents clients upload: bytes ending in CRLF, and bytes that contain
\* the delimiter.
Contents == {<<"x", "N">>, <<"x", "B", "y">>}

\* calculateFileHash: sha-256 has no collisions among the contents
Hash(bytes) == <<"sha256">> \o bytes
Hashes == {Hash(c) : c \in Contents}
\* an absent (or empty) hash string
NoHash == <<>>

\* The body LanReceiver.upload builds around the bytes of the file.
ClientBody(fileData) ==
    <<"B", "N", "F", "N", "T", "N", "N">> \o fileData \o <<"N", "B", "D", "N">>
\* A well-formed multipart body with one form field and no file part.
NoFileBody == <<"B", "N", "P", "N", "N", "x", "N", "B", "D", "N">>
Bodies == {ClientBody(c) : c \in Contents} \cup {NoFileBody}

\* Buffer.indexOf(symbol, from), 1-based; 0 when absent
RECURSIVE IndexOf(_, _, _)
IndexOf(buf, sym, from) ==
    IF from > Len(buf) THEN 0
    ELSE IF buf[from] = sym THEN from
    ELSE IndexOf(buf, sym, from + 1)

\* FileUtils.splitBuffer(buffer, "--<boundary>")
RECURSIVE SplitFrom(_, _, _)
SplitFrom(buf, start, parts) ==
    LET index == IndexOf(buf, "B", start)
    IN IF index = 0
       THEN IF start <= Len(buf)
            THEN Append(parts, SubSeq(buf, start, Len(buf)))
            ELSE parts
       ELSE SplitFrom(buf, index + 1, Append(parts, SubSeq(buf, start, index - 1)))

splitBuffer(buf) == SplitFrom(buf, 1, <<>>)

\* part.indexOf('\r\n\r\n'), 1-based; 0 when absent
RECURSIVE SeparatorIndex(_, _)
SeparatorIndex(part, from) ==
    IF from + 1 > Len(part) THEN 0
    ELSE IF part[from] = "N" /\ part[from + 1] = "N" THEN from
    ELSE SeparatorIndex(part, from + 1)

\* "remove trailing boundary markers": drop one trailing CRLF
StripCRLF(data) ==
    IF Len(data) >= 1 /\ data[Len(data)] = "N"
    THEN SubSeq(data, 1, Len(data) - 1)
    ELSE data

\* The body of the loop over the parts: is this a file part, and its data
ParsePart(part) ==
    LET sep == SeparatorIndex(part, 1)
        headers == SubSeq(part, 1, sep - 1)
        bodyBuffer == SubSeq(part, sep + 2, Len(part))
    IN IF Len(part) = 0 \/ sep = 0 THEN [file |-> FALSE, data |-> <<>>]
       ELSE IF \A i \in 1..Len(headers) : headers[i] # "F"
       THEN [file |-> FALSE, data |-> <<>>]
       ELSE [file |-> TRUE, data |-> StripCRLF(bodyBuffer)]

\* parseMultipartUpload: the first file part, or none (the promise rejects)
RECURSIVE FirstFilePart(_, _)
FirstFilePart(parts, i) ==
    IF i > Len(parts) THEN [file |-> FALSE, data |-> <<>>]
    ELSE IF ParsePart(parts[i]).file THEN ParsePart(parts[i])
    ELSE FirstFilePart(parts, i + 1)

parseMultipartUpload(body) == FirstFilePart(splitBuffer(body), 1)

----------------------------------------------------------------------------
\* LanReceiver, server role

Filenames == {"f1"}
\* a file that does not exist in the upload directory
NoFile == <<"ENOENT">>
\* an absent X-Verification-Code header
NoCode == [digits |-> "", padded |-> FALSE]
\* The HTTP parser strips the white space around a header value.
CodeHeaders == {c \in CodeStrings : ~c.padded} \cup {NoCode}
\* Content-Type of a POST /upload: multipart with a boundary parameter,
\* multipart without one, or something else
ContentTypes == {"multipart/form-data; boundary=b", "multipart/form-data", "text/plain"}
\* 5 * 60 * 1000 ms, in minutes
FiveMinutes == 5
\* how far the clock moves between two requests
TickSteps == {FiveMinutes + 1}

ReceiverCounted == {"upload-completed", "upload-limit-reached"}

RIdle == [op |-> "none", uploadId |-> 0, filename |-> "", size |-> 0,
          code |-> NoCode, hash |-> NoHash, ctype |-> "", status |-> 0,
          message |-> "", events |-> {}, flight |-> 0, remaining |-> 0,
          failures |-> 0, declared |-> NoHash, body |-> <<>>]

\* rLast describes the request the last step handled.  It is an observation,
\* no state of the Receiver: it is cleared before the next request is handled,
\* except that a POST /upload answered 403 can be followed at once by the
\* next attempt for the same uploadId, which counts the attempts.
ReceiverIdle == rLast = RIdle

ReceiverSettle ==
    /\ ~ReceiverIdle
    /\ rLast' = RIdle
    /\ UNCHANGED <<receiverServer, uploadCount, maxUploads, requirePerFileVerification,
                   globalVerificationManager, managers, pendingUploads, nextUploadId,
                   uploadDir, now, rFlights, rEmitted, completedIds, senderVars, restVars>>

\* maxUploads > 0 && uploadCount >= maxUploads
UploadLimitReached(count, max) == max > 0 /\ count >= max

\* contentType.includes('multipart/form-data')
IsMultipart(ctype) == ctype \in {"multipart/form-data; boundary=b", "multipart/form-data"}
\* FileUtils.extractBoundary(contentType) found a boundary
HasBoundary(ctype) == ctype = "multipart/form-data; boundary=b"

\* setMaxUploads / setRequirePerFileVerification: HttpServerManager configures
\* the Receiver between construction and startServer(), with one call of each
setMaxUploads(max) ==
    /\ ReceiverIdle /\ ~receiverServer /\ nextUploadId = 0 /\ max # maxUploads
    /\ maxUploads' = max
    /\ rLast' = RIdle
    /\ UNCHANGED <<receiverServer, uploadCount, requirePerFileVerification,
                   globalVerificationManager, managers, pendingUploads, nextUploadId,
                   uploadDir, now, rFlights, rEmitted, completedIds,
                   senderVars, restVars>>

setRequirePerFileVerification(required, code) ==
    /\ ReceiverIdle /\ ~receiverServer /\ nextUploadId = 0
    /\ ~requirePerFileVerification /\ globalVerificationManager = 0
    /\ requirePerFileVerification' = required
    /\ IF ~required /\ globalVerificationManager = 0
       THEN /\ managers' = Append(managers, NewVerificationManager(code))
            /\ globalVerificationManager' = Len(managers) + 1
       ELSE UNCHANGED <<managers, globalVerificationManager>>
    /\ rLast' = RIdle
    /\ UNCHANGED <<receiverServer, uploadCount, maxUploads, pendingUploads,
                   nextUploadId, uploadDir, now, rFlights, rEmitted, completedIds,
                   senderVars, restVars>>

\* startServer()
ReceiverStart ==
    /\ ReceiverIdle /\ ~receiverServer
    /\ receiverServer' = TRUE
    /\ rLast' = RIdle
    /\ UNCHANGED <<uploadCount, maxUploads, requirePerFileVerification,
                   globalVerificationManager, managers, pendingUploads, nextUploadId,
                   uploadDir, now, rFlights, rEmitted, completedIds,
                   senderVars, restVars>>

\* Date.now() moves on.
Tick(d) ==
    /\ ReceiverIdle /\ receiverServer /\ now + d <= MaxTime
    /\ now' = now + d
    /\ rLast' = RIdle
    /\ UNCHANGED <<receiverServer, uploadCount, maxUploads, requirePerFileVerification,
                   globalVerificationManager, managers, pendingUploads, nextUploadId,
                   uploadDir, rFlights, rEmitted, completedIds,
                   senderVars, restVars>>

\* "Clean up old pending uploads (older than 5 minutes)"
Expired(upload, t) == upload.timestamp < t - FiveMinutes /\ ~upload.verified

CleanUp(pending, t) ==
    [id \in {i \in DOMAIN pending : ~Expired(pending[i], t)} |-> pending[id]]

\* data.size of a body that has no size field
NoSize == -1
\* !size: an absent size and a size of 0 are both falsy
SizeMissing(size) == size \in {NoSize, 0}

\* A new VerificationManager draws a code only when the request is accepted
\* and the mode asks for a manager that does not exist yet.
CodesDrawn(filename, size, hash) ==
    IF /\ filename # "" /\ ~SizeMissing(size) /\ hash # NoHash
       /\ ~UploadLimitReached(uploadCount, maxUploads)
       /\ (requirePerFileVerification \/ globalVerificationManager = 0)
    THEN generateCode ELSE {CHOOSE c \in generateCode : TRUE}

\* handleUploadRequest1, POST /request-upload.  json = FALSE: the body does
\* not parse.  filename "", size NoSize and hash NoHash are the absent
\* values.  code is the code a new VerificationManager draws.
handleUploadRequest1(json, filename, size, hash, code) ==
    /\ ReceiverIdle /\ receiverServer
    /\ IF ~json
       THEN /\ rLast' = [RIdle EXCEPT !.op = "request-upload", !.status = 400,
                                      !.message = "Invalid request"]
            /\ UNCHANGED <<managers, globalVerificationManager, pendingUploads,
                           nextUploadId>>
       ELSE IF filename = "" \/ SizeMissing(size) \/ hash = NoHash
       THEN /\ rLast' = [RIdle EXCEPT !.op = "request-upload", !.status = 400,
                                      !.filename = filename, !.size = size, !.hash = hash,
                                      !.message = "Missing required fields"]
            /\ UNCHANGED <<managers, globalVerificationManager, pendingUploads,
                           nextUploadId>>
       ELSE IF UploadLimitReached(uploadCount, maxUploads)
       THEN /\ rLast' = [RIdle EXCEPT !.op = "request-upload", !.status = 429,
                                      !.filename = filename, !.size = size, !.hash = hash,
                                      !.message = "Upload limit reached"]
            /\ UNCHANGED <<managers, globalVerificationManager, pendingUploads,
                           nextUploadId>>
       ELSE /\ nextUploadId < MaxUploadIds
            /\ LET uploadId == nextUploadId + 1
                   fresh == requirePerFileVerification \/ globalVerificationManager = 0
                   mgr == IF fresh THEN Len(managers) + 1 ELSE globalVerificationManager
                   mgrs == IF fresh THEN Append(managers, NewVerificationManager(code))
                           ELSE managers
                   uploadRequest == [filename |-> filename, hash |-> hash,
                                     verificationManager |-> mgr, timestamp |-> now,
                                     verified |-> FALSE]
                   stored == [id \in DOMAIN pendingUploads \cup {uploadId} |->
                                IF id = uploadId THEN uploadRequest ELSE pendingUploads[id]]
               IN /\ managers' = mgrs
                  /\ globalVerificationManager' =
                        IF requirePerFileVerification THEN globalVerificationManager ELSE mgr
                  /\ nextUploadId' = uploadId
                  /\ pendingUploads' = CleanUp(stored, now)
                  /\ rLast' = [RIdle EXCEPT !.op = "request-upload", !.status = 200,
                                 !.uploadId = uploadId, !.filename = filename,
                                 !.size = size, !.hash = hash,
                                 !.code = mgrs[mgr].verificationCode,
                                 !.message = "Upload request received",
                                 !.events = {"upload-requested"}]
    /\ UNCHANGED <<receiverServer, uploadCount, maxUploads, requirePerFileVerification,
                   uploadDir, now, rFlights, rEmitted, completedIds,
                   senderVars, restVars>>

\* The number of POST /upload requests for uploadId that were answered 403
\* one after the other, up to the last step (counted up to MaxFailTracked).
FailedInARow(uploadId) ==
    IF rLast.op = "upload" /\ rLast.uploadId = uploadId /\ rLast.status = 403
    THEN rLast.failures ELSE 0

\* Mutant: the X-File-Hash header is not compared with the request.
HashAsRequested_Any(uploadRequest, fileHash) == TRUE

\* "Verify the hash matches the initial request"
HashAsRequested(uploadRequest, fileHash) == uploadRequest.hash = fileHash

\* handleFileUpload, POST /upload, up to the await of the request body.
\* uploadId 0 is an absent X-Upload-Id header; tok is the token the
\* VerificationManager generates if the code is right.  At most flights
\* requests wait for their body at one time.
handleFileUpload(flights, uploadId, code, fileHash, ctype, body, tok) ==
    /\ receiverServer
    /\ ReceiverIdle \/ FailedInARow(uploadId) > 0
    /\ LET req == [RIdle EXCEPT !.op = "upload", !.uploadId = uploadId,
                                !.code = code, !.hash = fileHash]
           accepted == [req EXCEPT !.failures = FailedInARow(uploadId)]
           uploadRequest == pendingUploads[uploadId]
           vm == managers[uploadRequest.verificationManager]
           result == verifyAndCreateSession(vm, code, tok)
           verifiedVms == [managers EXCEPT ![uploadRequest.verificationManager] = result.vm]
       IN IF uploadId = 0 \/ code = NoCode \/ fileHash = NoHash
          THEN /\ rLast' = [req EXCEPT !.status = 400,
                     !.message = "Missing upload ID, verification code, or file hash"]
               /\ UNCHANGED <<managers, pendingUploads, rFlights>>
          ELSE IF uploadId \notin DOMAIN pendingUploads
          THEN /\ rLast' = [req EXCEPT !.status = 404,
                     !.message = "Upload request not found or expired"]
               /\ UNCHANGED <<managers, pendingUploads, rFlights>>
          ELSE IF ~result.valid
          THEN /\ rLast' = [req EXCEPT !.status = 403,
                     !.message = "Invalid verification code",
                     !.failures = IF FailedInARow(uploadId) < MaxFailTracked
                                  THEN FailedInARow(uploadId) + 1 ELSE MaxFailTracked,
                     !.events = {"verification-failed"}]
               /\ UNCHANGED <<managers, pendingUploads, rFlights>>
          ELSE IF ~HashAsRequested(uploadRequest, fileHash)
          THEN /\ rLast' = [req EXCEPT !.status = 400,
                     !.message = "File hash does not match initial request"]
               /\ managers' = verifiedVms
               /\ UNCHANGED <<pendingUploads, rFlights>>
          ELSE /\ managers' = verifiedVms
               /\ pendingUploads' = [pendingUploads EXCEPT ![uploadId].verified = TRUE]
               /\ IF ~IsMultipart(ctype)
                  THEN /\ rLast' = [req EXCEPT !.status = 400, !.ctype = ctype,
                             !.message = "Invalid content type",
                             !.events = {"upload-verified"}]
                       /\ UNCHANGED rFlights
                  ELSE IF ~HasBoundary(ctype)
                  THEN /\ rLast' = [req EXCEPT !.status = 400, !.ctype = ctype,
                             !.message = "Invalid multipart boundary",
                             !.events = {"upload-verified"}]
                       /\ UNCHANGED rFlights
                  ELSE /\ Len(rFlights) < flights
                       /\ rFlights' = Append(rFlights,
                             [uploadId |-> uploadId, filename |-> uploadRequest.filename,
                              hash |-> uploadRequest.hash, fileHash |-> fileHash,
                              body |-> body])
                       /\ rLast' = [accepted EXCEPT !.ctype = ctype, !.flight = Len(rFlights) + 1,
                                               !.events = {"upload-verified"}]
    /\ UNCHANGED <<receiverServer, uploadCount, maxUploads, requirePerFileVerification,
                   globalVerificationManager, nextUploadId, uploadDir, now, rEmitted,
                   completedIds, senderVars, restVars>>

UploadBegin(uploadId, code, fileHash, ctype, body, tok) ==
    handleFileUpload(MaxFlights, uploadId, code, fileHash, ctype, body, tok)

\* The parts of a POST /upload the handler gets to: the token generator runs
\* only for a right code, the Content-Type is read only after the hash
\* comparison, the body only behind a multipart Content-Type with a boundary.
\* A part that is not read is given one value.
ReachesVerify(uploadId, code, fileHash) ==
    /\ uploadId # 0 /\ code # NoCode /\ fileHash # NoHash
    /\ uploadId \in DOMAIN pendingUploads

\* The Receiver neither returns the token nor reads the sessions again: the
\* non-empty tokens stand for all.
TokensDrawn(uploadId, code, fileHash) ==
    IF /\ ReachesVerify(uploadId, code, fileHash)
       /\ CodeMatches(managers[pendingUploads[uploadId].verificationManager], code)
    THEN {t \in generateSessionToken : Truthy(t)}
    ELSE {CHOOSE t \in generateSessionToken : Truthy(t)}

ContentTypesRead(uploadId, code, fileHash) ==
    IF /\ ReachesVerify(uploadId, code, fileHash)
       /\ CodeMatches(managers[pendingUploads[uploadId].verificationManager], code)
       /\ HashAsRequested(pendingUploads[uploadId], fileHash)
    THEN ContentTypes ELSE {"text/plain"}

BodiesRead(uploadId, code, fileHash) ==
    IF ContentTypesRead(uploadId, code, fileHash) = ContentTypes
    THEN Bodies ELSE {NoFileBody}

\* fs.writeFileSync(filePath, data)
WriteFile(dir, filename, data) == [dir EXCEPT ![filename] = data]

\* Mutant: the file stays where it was written.
Unlink_Keep(dir, filename) == dir

\* fs.unlinkSync(filePath)
Unlink(dir, filename) == [dir EXCEPT ![filename] = NoFile]

\* Mutant: the written file is not hashed again.
StoreUpload_NoRehash(f) ==
    LET fileData == parseMultipartUpload(f.body)
        written == WriteFile(uploadDir, f.filename, fileData.data)
    IN IF ~fileData.file
       THEN [dir |-> uploadDir, status |-> 500, message |-> "No file found in upload",
             completed |-> FALSE]
       ELSE [dir |-> written, status |-> 200, message |-> "Upload successful",
             completed |-> TRUE]

\* What handleFileUpload does with the parsed body of flight f: the upload
\* directory, the answer and whether the upload counts.
StoreUpload(f) ==
    LET fileData == parseMultipartUpload(f.body)
        written == WriteFile(uploadDir, f.filename, fileData.data)
        uploadedFileHash == Hash(written[f.filename])
    IN IF ~fileData.file
       THEN [dir |-> uploadDir, status |-> 500, message |-> "No file found in upload",
             completed |-> FALSE]
       ELSE IF uploadedFileHash # f.hash
       THEN [dir |-> Unlink(written, f.filename), status |-> 400,
             message |-> "File integrity check failed", completed |-> FALSE]
       ELSE [dir |-> written, status |-> 200, message |-> "Upload successful",
             completed |-> TRUE]

RemoveAt(seq, k) == SubSeq(seq, 1, k - 1) \o SubSeq(seq, k + 1, Len(seq))

Remove(pending, uploadId) == [id \in DOMAIN pending \ {uploadId} |-> pending[id]]

\* handleFileUpload after the await: the request body has arrived.
UploadEnd(k) ==
    /\ ReceiverIdle /\ k \in 1..Len(rFlights)
    /\ LET f == rFlights[k]
           out == StoreUpload(f)
           count == IF out.completed THEN uploadCount + 1 ELSE uploadCount
           evs == IF ~out.completed THEN {}
                  ELSE {"upload-completed"} \cup
                       (IF UploadLimitReached(count, maxUploads)
                        THEN {"upload-limit-reached"} ELSE {})
       IN /\ uploadDir' = out.dir
          /\ uploadCount' = count
          /\ pendingUploads' = IF out.completed THEN Remove(pendingUploads, f.uploadId)
                               ELSE pendingUploads
          /\ completedIds' = IF out.completed
                             THEN [completedIds EXCEPT ![f.uploadId] = @ + 1]
                             ELSE completedIds
          /\ rEmitted' = Bump(rEmitted, evs)
          /\ rFlights' = RemoveAt(rFlights, k)
          /\ rLast' = [RIdle EXCEPT !.op = "upload-end", !.uploadId = f.uploadId,
                         !.filename = f.filename, !.hash = f.fileHash,
                         !.declared = f.hash, !.body = f.body,
                         !.status = out.status, !.message = out.message,
                         !.events = evs, !.flight = k]
    /\ UNCHANGED <<receiverServer, maxUploads, requirePerFileVerification,
                   globalVerificationManager, managers, nextUploadId, now,
                   senderVars, restVars>>

\* req 'error' while the body is awaited: parseMultipartUpload rejects and
\* the catch answers 500.
UploadBodyError(k) ==
    /\ ReceiverIdle /\ k \in 1..Len(rFlights)
    /\ rFlights' = RemoveAt(rFlights, k)
    /\ rLast' = [RIdle EXCEPT !.op = "upload-error", !.uploadId = rFlights[k].uploadId,
                   !.filename = rFlights[k].filename, !.hash = rFlights[k].fileHash,
                   !.declared = rFlights[k].hash, !.body = rFlights[k].body,
                   !.status = 500, !.message = "Upload failed", !.flight = k]
    /\ UNCHANGED <<receiverServer, uploadCount, maxUploads, requirePerFileVerification,
                   globalVerificationManager, managers, pendingUploads, nextUploadId,
                   uploadDir, now, rEmitted, completedIds, senderVars, restVars>>

\* handleRequest, GET /health
ReceiverHealth ==
    /\ ReceiverIdle /\ receiverServer
    /\ rLast' = [RIdle EXCEPT !.op = "health", !.status = 200,
                   !.message = IF maxUploads = 0 THEN "unlimited" ELSE "limited",
                   !.remaining = IF maxUploads = 0 THEN 0 ELSE maxUploads - uploadCount]
    /\ UNCHANGED <<receiverServer, uploadCount, maxUploads, requirePerFileVerification,
                   globalVerificationManager, managers, pendingUploads, nextUploadId,
                   uploadDir, now, rFlights, rEmitted, completedIds,
                   senderVars, restVars>>

ReceiverInit ==
    /\ receiverServer = FALSE
    /\ uploadCount = 0
    /\ maxUploads = 0
    /\ requirePerFileVerification = FALSE
    /\ globalVerificationManager = 0
    /\ managers = <<>>
    /\ pendingUploads = <<>>
    /\ nextUploadId = 0
    /\ uploadDir = [f \in Filenames |-> NoFile]
    /\ now = 0
    /\ rFlights = <<>>
    /\ rLast = RIdle
    /\ rEmitted = [e \in ReceiverCounted |-> 0]
    /\ completedIds = [id \in 1..MaxUploadIds |-> 0]

ReceiverNext ==
    \/ \E max \in 0..MaxQuota : setMaxUploads(max)
    \/ \E required \in BOOLEAN, code \in generateCode :
          setRequirePerFileVerification(required, code)
    \/ ReceiverStart
    \/ \E d \in TickSteps : Tick(d)
    \/ \E filename \in Filenames \cup {""}, size \in {NoSize, 0, 1},
          hash \in Hashes \cup {NoHash} :
          \E code \in CodesDrawn(filename, size, hash) :
             handleUploadRequest1(TRUE, filename, size, hash, code)
    \/ \E code \in CodesDrawn("", 0, NoHash) :
          handleUploadRequest1(FALSE, "", 0, NoHash, code)
    \/ \E uploadId \in 0..MaxUploadIds, code \in CodeHeaders,
          fileHash \in Hashes \cup {NoHash} :
          \E ctype \in ContentTypesRead(uploadId, code, fileHash),
             body \in BodiesRead(uploadId, code, fileHash),
             tok \in TokensDrawn(uploadId, code, fileHash) :
             UploadBegin(uploadId, code, fileHash, ctype, body, tok)
    \/ \E k \in 1..MaxFlights : UploadEnd(k)
    \/ \E k \in 1..MaxFlights : UploadBodyError(k)
    \/ ReceiverHealth
    \/ ReceiverSettle

----------------------------------------------------------------------------
\* The CLI: DeviceDiscoveryService and the selection flow of
\* Send.sendViaLan / Receive.receiveViaLan.  Times are in seconds.

\* options.autoShowDelay (3000 ms) and options.researchDuration (5000 ms)
autoShowDelay == 3
researchDuration == 5

\* host:port of the services on the network, and the role a service
\* advertises in its TXT record (Undefined: none)
ServiceIds == {"h1:40000", "h2:40000"}
Roles == {"sender", "receiver", Undefined}

NoTime == -1
NoTimeout == [state |-> "null", due |-> 0]
NoResearch == [startTime |-> 0, hasInitialDevices |-> FALSE, found |-> {},
               endTime |-> NoTime]

\* Mutant: the 'service-up' handler keeps every service.
Filtered_Never(m, role) == FALSE

\* the 'service-up' handler returns early: the service has not the role
\* this side looks for
Filtered(m, role) ==
    \/ m = "send" /\ role # "receiver"
    \/ m = "receive" /\ role # "sender"

\* the local server of the command that is running
LocalServerUp == IF mode = "send" THEN senderServer /\ Listening ELSE receiverServer

\* sendViaLan / receiveViaLan once the server is started: with --disable-lan
\* keepAlive at once; else new DeviceDiscoveryService, advertise, and
\* startDiscovery up to its await.
CliDiscoveryStart(disableLan) ==
    /\ pc = "start" /\ (senderServer \/ receiverServer)
    /\ mode' = IF senderServer THEN "send" ELSE "receive"
    /\ IF disableLan
       THEN /\ pc' = "keepAlive" /\ outcome' = "server-only"
            /\ UNCHANGED <<browser, publishedService>>
       ELSE /\ pc' = "discovering" /\ browser' = TRUE /\ publishedService' = TRUE
            /\ UNCHANGED outcome
    /\ UNCHANGED <<devices, selectionTimeout, shouldShowMenu, clock, choices, research,
                   firstFound, sinceEmpty, senderVars, receiverVars, vmVars, otherVars>>

\* discovery.on('service-up'): a service with this id and role is announced
ServiceUp(id, role) ==
    /\ browser
    /\ IF Filtered(mode, role)
       THEN UNCHANGED <<devices, selectionTimeout, firstFound, sinceEmpty, research>>
       ELSE LET set == {d \in devices : d.id # id} \cup {[id |-> id, role |-> role]}
            IN /\ devices' = set
               /\ selectionTimeout' =
                     IF Cardinality(set) = 1 /\ selectionTimeout.state = "null"
                     THEN [state |-> "armed", due |-> clock + autoShowDelay]
                     ELSE selectionTimeout
               /\ firstFound' = IF firstFound = NoTime THEN clock ELSE firstFound
               /\ sinceEmpty' = IF sinceEmpty = "waiting" THEN "appeared" ELSE sinceEmpty
               /\ research' = IF pc = "research"
                               THEN [research EXCEPT !.found = @ \cup {id}]
                               ELSE research
    /\ UNCHANGED <<mode, shouldShowMenu, browser, publishedService, clock, pc, choices,
                   outcome, senderVars, receiverVars, vmVars, otherVars>>

\* discovery.on('service-down')
ServiceDown(id) ==
    /\ browser /\ \E d \in devices : d.id = id
    /\ devices' = {d \in devices : d.id # id}
    /\ UNCHANGED <<mode, selectionTimeout, shouldShowMenu, browser, publishedService,
                   clock, pc, choices, research, outcome, firstFound, sinceEmpty,
                   senderVars, receiverVars, vmVars, otherVars>>

\* a second passes
ClockTick ==
    /\ pc # "start" /\ clock < MaxClock
    /\ clock' = clock + 1
    /\ UNCHANGED <<mode, devices, selectionTimeout, shouldShowMenu, browser,
                   publishedService, pc, choices, research, outcome, firstFound,
                   sinceEmpty, senderVars, receiverVars, vmVars, otherVars>>

\* the callback of selectionTimeout
SelectionTimeoutFires ==
    /\ selectionTimeout.state = "armed" /\ clock >= selectionTimeout.due
    /\ shouldShowMenu' = TRUE
    /\ selectionTimeout' = [selectionTimeout EXCEPT !.state = "fired"]
    /\ UNCHANGED <<mode, devices, browser, publishedService, clock, pc, choices,
                   research, outcome, firstFound, sinceEmpty,
                   senderVars, receiverVars, vmVars, otherVars>>

\* showDeviceSelectionMenu, the head of its loop up to the prompt it shows
EnterMenuLoop ==
    IF devices = {}
    THEN pc' = "confirm-empty" /\ choices' = {} /\ sinceEmpty' = "waiting"
    ELSE pc' = "select" /\ choices' = devices /\ UNCHANGED sinceEmpty

\* the checkInterval callback of startDiscovery that resolves, and the
\* caller going on into showDeviceSelectionMenu
DiscoveryCheck ==
    /\ pc = "discovering" /\ devices # {} /\ shouldShowMenu
    /\ selectionTimeout' = IF selectionTimeout.state = "armed"
                           THEN [selectionTimeout EXCEPT !.state = "cleared"]
                           ELSE selectionTimeout
    /\ EnterMenuLoop
    /\ UNCHANGED <<mode, devices, shouldShowMenu, browser, publishedService, clock,
                   research, outcome, firstFound, senderVars, receiverVars, vmVars, otherVars>>

\* the menu returns null: the command goes on in server mode
MenuReturnsNull ==
    /\ pc' = "keepAlive" /\ outcome' = "no-selection"
    /\ research' = NoResearch
    /\ UNCHANGED choices

\* the menu calls researchDevices
StartResearch ==
    /\ pc' = "research"
    /\ research' = [startTime |-> clock, hasInitialDevices |-> devices # {},
                    found |-> {}, endTime |-> NoTime]
    /\ UNCHANGED <<outcome, choices>>

\* the answer to 'Search for <deviceType>s?', asked when no device is known
ConfirmEmpty(answer) ==
    /\ pc = "confirm-empty"
    /\ IF answer THEN StartResearch ELSE MenuReturnsNull
    /\ UNCHANGED <<mode, devices, selectionTimeout, shouldShowMenu, browser,
                   publishedService, clock, firstFound, sinceEmpty,
                   senderVars, receiverVars, vmVars, otherVars>>

\* what the select prompt can answer: one of its devices, 'RESEARCH', or
\* nothing when the user cancels
Responses(offered) ==
    {[kind |-> "device", id |-> d.id] : d \in offered}
    \cup {[kind |-> "RESEARCH", id |-> ""], [kind |-> "cancel", id |-> ""]}

\* the answer to the select prompt.  A device is returned to the command,
\* which prompts for the verification code.
Select(response) ==
    /\ pc = "select"
    /\ IF response.kind = "cancel"
       THEN pc' = "confirm-cancel" /\ research' = NoResearch /\ UNCHANGED <<outcome, choices>>
       ELSE IF response.kind = "RESEARCH"
       THEN StartResearch
       ELSE /\ pc' = "code" /\ research' = NoResearch
            /\ choices' = {d \in choices : d.id = response.id}
            /\ UNCHANGED outcome
    /\ UNCHANGED <<mode, devices, selectionTimeout, shouldShowMenu, browser,
                   publishedService, clock, firstFound, sinceEmpty,
                   senderVars, receiverVars, vmVars, otherVars>>

\* the answer to 'Search for more <deviceType>s?', asked after a cancel
ConfirmCancel(answer) ==
    /\ pc = "confirm-cancel"
    /\ IF answer THEN StartResearch ELSE MenuReturnsNull
    /\ UNCHANGED <<mode, devices, selectionTimeout, shouldShowMenu, browser,
                   publishedService, clock, firstFound, sinceEmpty,
                   senderVars, receiverVars, vmVars, otherVars>>

\* Mutant: every search ends at its first tick.
ResearchDone_Always(r, devs, t) == TRUE

\* Mutant: every search ends as soon as a device is known.
ResearchDone_WhenFound(r, devs, t) == devs # {}

\* Mutant: a search without devices ends after researchDuration as well.
ResearchDone_Timed(r, devs, t) == t - r.startTime >= researchDuration

\* researchDevices resolves at this tick of its interval
ResearchDone(r, devs, t) ==
    IF r.hasInitialDevices THEN t - r.startTime >= researchDuration ELSE devs # {}

\* the updateInterval callback of researchDevices that resolves; the menu
\* goes round its loop
ResearchInterval ==
    /\ pc = "research" /\ ResearchDone(research, devices, clock)
    /\ research' = [research EXCEPT !.endTime = clock]
    /\ EnterMenuLoop
    /\ UNCHANGED <<mode, devices, selectionTimeout, shouldShowMenu, browser,
                   publishedService, clock, outcome, firstFound,
                   senderVars, receiverVars, vmVars, otherVars>>

\* TransferHandler.promptVerificationCode returns; entered: a code was typed.
\* With a code the command starts the upload (download) on a new LanReceiver.
CodePrompt(entered) ==
    /\ pc = "code"
    /\ IF entered THEN pc' = "transfer" /\ UNCHANGED outcome
       ELSE pc' = "keepAlive" /\ outcome' = "code-cancelled"
    /\ UNCHANGED <<mode, devices, selectionTimeout, shouldShowMenu, browser,
                   publishedService, clock, choices, research, firstFound, sinceEmpty,
                   senderVars, receiverVars, vmVars, otherVars>>

\* Mutant: the command tears the discovery down after its transfer.
TransferDone_Destroys(ok) ==
    /\ pc = "transfer"
    /\ pc' = "keepAlive" /\ outcome' = IF ok THEN "transferred" ELSE "failed"
    /\ browser' = FALSE /\ publishedService' = FALSE
    /\ UNCHANGED <<mode, devices, selectionTimeout, shouldShowMenu,
                   clock, choices, research, firstFound, sinceEmpty,
                   senderVars, receiverVars, vmVars, otherVars>>

\* TransferHandler.uploadFile / downloadFile resolves (ok) or rejects; the
\* command reports it and goes on to keepAlive
TransferDone(ok) ==
    /\ pc = "transfer"
    /\ pc' = "keepAlive" /\ outcome' = IF ok THEN "transferred" ELSE "failed"
    /\ UNCHANGED <<mode, devices, selectionTimeout, shouldShowMenu, browser,
                   publishedService, clock, choices, research, firstFound, sinceEmpty,
                   senderVars, receiverVars, vmVars, otherVars>>

CliInit ==
    /\ mode = "none"
    /\ devices = {}
    /\ selectionTimeout = NoTimeout
    /\ shouldShowMenu = FALSE
    /\ browser = FALSE
    /\ publishedService = FALSE
    /\ clock = 0
    /\ pc = "start"
    /\ choices = {}
    /\ research = NoResearch
    /\ outcome = "none"
    /\ firstFound = NoTime
    /\ sinceEmpty = "none"

\* One command, send or receive, from the start of its server on.
CliFlowNext ==
    \/ \E limit \in Limits, noVerification \in {FALSE} :
          ~receiverServer /\ CliSendStart(limit, noVerification)
    \/ ~senderServer /\ ReceiverStart
    \/ \E disableLan \in BOOLEAN : CliDiscoveryStart(disableLan)
    \/ \E id \in ServiceIds, role \in Roles : ServiceUp(id, role)
    \/ \E id \in ServiceIds : ServiceDown(id)
    \/ ClockTick
    \/ SelectionTimeoutFires
    \/ DiscoveryCheck
    \/ \E answer \in BOOLEAN : ConfirmEmpty(answer)
    \/ \E response \in Responses(choices) : Select(response)
    \/ \E answer \in BOOLEAN : ConfirmCancel(answer)
    \/ ResearchInterval
    \/ \E entered \in BOOLEAN : CodePrompt(entered)
    \/ \E ok \in BOOLEAN : TransferDone(ok)

----------------------------------------------------------------------------
\* LanDiscovery (packages/core/src/utils.ts), one instance under any sequence
\* of calls and of events of its browser.

\* the names and the txt.id values of the services on the network
ServiceNames == {"howl-share-p1", "howl-share-p2"}
TxtIds == {"p1", Undefined}
\* a bonjour Service: its name, its txt.id and its host:port
Services == [name : ServiceNames, txtId : TxtIds, host : ServiceIds]

NoServiceInfo == [id |-> "", name |-> "", host |-> ""]

\* parseService(service): the record's id is txt.id, or the name without one
parseService(service) ==
    LET id == IF Truthy(service.txtId) THEN service.txtId ELSE service.name
    IN  IF ~Truthy(id) THEN NoServiceInfo
        ELSE [id |-> id, name |-> service.name, host |-> service.host]

\* Map.set(info.id, info) and Map.delete(id) on discoveredServices
MapSet(map, info) == {r \in map : r.id # info.id} \cup {info}
MapDelete(map, id) == {r \in map : r.id # id}

\* Mutant: unpublish() keeps the published service.
unpublish_Keeps(published) == published

\* unpublish(): the published service, stopped and dropped if there is one
unpublish(published) == IF published THEN FALSE ELSE published

\* stopDiscovery(): the browser, stopped and dropped if there is one
stopDiscovery(b) == IF b THEN FALSE ELSE b

\* advertise(peerId, name, port, metadata)
Advertise ==
    /\ publishedService' = TRUE
    /\ UNCHANGED <<browser, discVars, flowVars, senderVars, receiverVars, vmVars,
                   clientVars, utilVars>>

\* unpublish()
Unpublish ==
    /\ publishedService' = unpublish(publishedService)
    /\ UNCHANGED <<browser, discVars, flowVars, senderVars, receiverVars, vmVars,
                   clientVars, utilVars>>

\* on('service-up' | 'service-down', listener)
DiscoveryOn ==
    /\ discoveryListeners' = TRUE
    /\ UNCHANGED <<browser, publishedService, discoveredServices, bonjour,
                   browserServices, destroys, flowVars, senderVars, receiverVars,
                   vmVars, clientVars, utilVars>>

\* startDiscovery(): a new browser replaces the one there is
StartDiscovery ==
    /\ browser' = TRUE
    /\ browserServices' = {}
    /\ UNCHANGED <<publishedService, discoveredServices, bonjour, discoveryListeners,
                   destroys, flowVars, senderVars, receiverVars, vmVars,
                   clientVars, utilVars>>

\* stopDiscovery()
StopDiscovery ==
    /\ browser' = stopDiscovery(browser)
    /\ browserServices' = {}
    /\ UNCHANGED <<publishedService, discoveredServices, bonjour, discoveryListeners,
                   destroys, flowVars, senderVars, receiverVars, vmVars,
                   clientVars, utilVars>>

\* the browser's 'up' event: a service it did not know by this name
BrowserUp(service) ==
    /\ browser
    /\ \A known \in browserServices : known.name # service.name
    /\ browserServices' = browserServices \cup {service}
    /\ LET serviceInfo == parseService(service)
       IN  discoveredServices' =
               IF serviceInfo = NoServiceInfo THEN discoveredServices
               ELSE MapSet(discoveredServices, serviceInfo)
    /\ UNCHANGED <<browser, publishedService, bonjour, discoveryListeners, destroys,
                   flowVars, senderVars, receiverVars, vmVars, clientVars, utilVars>>

\* the browser's 'down' event, for a service it had announced
BrowserDown(service) ==
    /\ browser
    /\ service \in browserServices
    /\ browserServices' = browserServices \ {service}
    /\ LET serviceInfo == parseService(service)
       IN  discoveredServices' =
               IF serviceInfo = NoServiceInfo THEN discoveredServices
               ELSE MapDelete(discoveredServices, serviceInfo.id)
    /\ UNCHANGED <<browser, publishedService, bonjour, discoveryListeners, destroys,
                   flowVars, senderVars, receiverVars, vmVars, clientVars, utilVars>>

\* destroy()
Destroy ==
    /\ Len(destroys) < MaxDestroys
    /\ destroys' = Append(destroys, [browser |-> browser,
                                       publishedService |-> publishedService,
                                       services |-> discoveredServices # {}])
    /\ browser' = stopDiscovery(browser)
    /\ browserServices' = {}
    /\ publishedService' = unpublish(publishedService)
    /\ discoveredServices' = {}
    /\ bonjour' = "destroyed"
    /\ discoveryListeners' = FALSE
    /\ UNCHANGED <<flowVars, senderVars, receiverVars, vmVars, clientVars, utilVars>>

DiscInit ==
    /\ discoveredServices = {}
    /\ bonjour = "alive"
    /\ browserServices = {}
    /\ discoveryListeners = FALSE
    /\ destroys = <<>>

DiscoveryNext ==
    \/ Advertise
    \/ Unpublish
    \/ DiscoveryOn
    \/ StartDiscovery
    \/ StopDiscovery
    \/ \E service \in Services : BrowserUp(service)
    \/ \E service \in Services : BrowserDown(service)
    \/ Destroy

----------------------------------------------------------------------------
\* LanReceiver as a client (packages/core/src/types.ts): verify() and
\* download() against the Sender, upload() against a Receiver's responses.
\* One client, one call at a time.

nonClientVars == <<senderVars, receiverVars, vmVars, cliVars, discVars, utilVars>>
\* the Sender's state that reading a response leaves alone
senderButLast == <<senderServer, files, senderVm, downloadCount, maxDownloads,
                   requireVerification, sReqs, sEmitted, stopVars, sTokens>>

Bytes == {"a", "b"}
\* the contents a file can have
FileContents == UNION {[1..n -> Bytes] : n \in 0..MaxFileLen}
NoOutFile == [exists |-> FALSE, bytes |-> <<>>]

\* what can be at outputPath before the first call: nothing, a partial copy
\* of the source (or an empty file), or a file of other content
OutFiles(source) ==
    {NoOutFile}
    \cup {[exists |-> TRUE, bytes |-> SubSeq(source, 1, k)] : k \in 0..(Len(source) - 1)}
    \cup {[exists |-> TRUE, bytes |-> [i \in 1..MaxFileLen |-> "b"]]}

IsPrefix(p, q) == Len(p) <= Len(q) /\ SubSeq(q, 1, Len(p)) = p

NoResponse == [status |-> 0, body |-> "none", uploadId |-> Undefined]
NoCall == [op |-> "none", state |-> "done", promise |-> "none", code |-> Undefined,
           startByte |-> 0, resume |-> FALSE, signal |-> FALSE, aborted |-> FALSE,
           partial |-> FALSE, received |-> 0, completed |-> 0, req |-> 0,
           status |-> 0, sent |-> <<>>, stage1 |-> NoResponse]

\* no call is under way
ClientIdle == call.state = "done"

\* resolve(value) / reject(err): a promise settles once
Resolve(promise) == IF promise = "pending" THEN "resolved" ELSE promise
Reject(promise) == IF promise = "pending" THEN "rejected" ELSE promise

\* the files of the scenario: the file the Sender serves and what is at
\* outputPath before the client's first call
ClientPrepare(source, out) ==
    /\ sourceFile = <<>> /\ ~senderServer /\ sServers = <<>>
    /\ source # <<>>
    /\ sourceFile' = source
    /\ outFile' = out
    /\ UNCHANGED <<sessionToken, call, lastVerify, nonClientVars>>

\* verify(host, port, code): POST /verify is sent
ClientVerifyCall(code) ==
    /\ ClientIdle /\ SenderIdle /\ Listening
    /\ call' = [NoCall EXCEPT !.op = "verify", !.state = "sent", !.promise = "pending",
                              !.code = code]
    /\ UNCHANGED <<sessionToken, lastVerify, outFile, sourceFile, nonClientVars>>

\* the Sender answers the client's POST /verify
ClientVerifyServed ==
    /\ call.op = "verify" /\ call.state = "sent"
    /\ \E tok \in (IF CodeMatches(senderVm, call.code) THEN generateSessionToken
                   ELSE {CHOOSE t \in generateSessionToken : TRUE}) :
          SenderVerify([kind |-> "code", code |-> call.code], tok)

\* result.success && result.sessionToken
VerifySucceeded(response) == response.status = 200 /\ Truthy(response.htoken)

\* verify(): the response has ended
ClientVerifyResponse ==
    /\ call.op = "verify" /\ call.state = "sent" /\ sLast.op = "verify"
    /\ sessionToken' = IF VerifySucceeded(sLast) THEN sLast.htoken ELSE sessionToken
    /\ lastVerify' = IF VerifySucceeded(sLast) THEN "true" ELSE "false"
    /\ call' = [call EXCEPT !.state = "done", !.promise = Resolve(@),
                            !.status = sLast.status]
    /\ sLast' = SIdle
    /\ UNCHANGED <<outFile, sourceFile, senderButLast, receiverVars, vmVars, cliVars,
                   discVars, utilVars>>

\* startByte: the size of the file at outputPath when resuming, else 0
StartByte(resume, file) == IF resume /\ file.exists THEN Len(file.bytes) ELSE 0

\* Mutant: download() sends no session token.
SessionHeader_None(token) == Undefined

\* the X-Session-Token header of download(): the token if there is one
SessionHeader(token) == IF Truthy(token) THEN token ELSE Undefined

\* the Range header of download(), as the Sender takes it: none, or
\* bytes=<startByte>- with a start inside the file
RangeHeader(startByte) == IF startByte > 0 THEN "ok" ELSE "none"

\* download(host, port, fileId, outputPath, {resume, signal}): GET is sent.
\* A resumed download starts inside the source file.
ClientDownloadCall(resume, signal) ==
    /\ ClientIdle /\ SenderIdle /\ Listening /\ Len(sReqs) < MaxReq
    /\ StartByte(resume, outFile) < Len(sourceFile)
    /\ call' = [NoCall EXCEPT !.op = "download", !.state = "sent", !.promise = "pending",
                              !.startByte = StartByte(resume, outFile),
                              !.resume = resume, !.signal = signal,
                              !.partial = (outFile.exists /\ outFile.bytes # <<>>
                                           /\ IsPrefix(outFile.bytes, sourceFile))]
    /\ UNCHANGED <<sessionToken, lastVerify, outFile, sourceFile, nonClientVars>>

\* the Sender handles the client's GET /<fileId>
ClientDownloadServed ==
    /\ call.op = "download" /\ call.state = "sent"
    /\ SenderGet(TheFile.name, Undefined, SessionHeader(sessionToken),
                 RangeHeader(call.startByte))

\* the body of the Sender's response: the file from start to its end
\* (fs.createReadStream(filePath, { start, end }) with end = fileSize - 1)
ResponseBody(content, start) == SubSeq(content, start + 1, Len(content))

\* Mutant: the write stream always appends.
WriteFlags_Append(startByte) == "a"

\* flags: startByte > 0 ? 'a' : 'w'
WriteFlags(startByte) == IF startByte > 0 THEN "a" ELSE "w"

\* fs.createWriteStream(outputPath, { flags }) on this file
OpenForWrite(file, flags) ==
    [exists |-> TRUE, bytes |-> IF flags = "a" THEN file.bytes ELSE <<>>]

\* download(): the response callback
ClientDownloadResponse ==
    /\ call.op = "download" /\ call.state = "sent" /\ sLast.op = "GET"
    /\ IF sLast.status # 200 /\ sLast.status # 206
       THEN /\ call' = [call EXCEPT !.state = "done", !.promise = Reject(@),
                                    !.status = sLast.status, !.req = sLast.req]
            /\ UNCHANGED outFile
       ELSE /\ call' = [call EXCEPT !.state = "streaming", !.status = sLast.status,
                                    !.req = sLast.req]
            /\ outFile' = OpenForWrite(outFile, WriteFlags(call.startByte))
    /\ sLast' = SIdle
    /\ UNCHANGED <<sessionToken, lastVerify, sourceFile, senderButLast, receiverVars,
                   vmVars, cliVars, discVars, utilVars>>

\* res.pipe(writeStream): the next byte of the body is written
ClientData ==
    /\ call.op = "download" /\ call.state = "streaming"
    /\ LET body == ResponseBody(sourceFile, call.startByte)
       IN /\ call.received < Len(body)
          /\ outFile' = [outFile EXCEPT !.bytes = Append(@, body[call.received + 1])]
          /\ call' = [call EXCEPT !.received = @ + 1]
    /\ UNCHANGED <<sessionToken, lastVerify, sourceFile, nonClientVars>>

\* the response's 'end': pipe calls writeStream.end()
ClientResponseEnd ==
    /\ call.op = "download" /\ call.state = "streaming"
    /\ call.received = Len(ResponseBody(sourceFile, call.startByte))
    /\ call' = [call EXCEPT !.state = "ended"]
    /\ UNCHANGED <<sessionToken, lastVerify, outFile, sourceFile, nonClientVars>>

\* writeStream.on('finish'): emit 'completed', resolve(fileMetadata)
ClientWriteFinish ==
    /\ call.op = "download" /\ call.state = "ended"
    /\ call' = [call EXCEPT !.state = "done", !.completed = @ + 1,
                            !.promise = Resolve(@)]
    /\ UNCHANGED <<sessionToken, lastVerify, outFile, sourceFile, nonClientVars>>

\* the signal's 'abort' listener, while the promise is pending:
\* request.destroy(), reject(new Error('Download aborted')).  The response
\* stops if it has not ended; a write stream that was ended still finishes.
ClientAbort ==
    /\ call.op = "download" /\ call.signal /\ ~call.aborted
    /\ call.promise = "pending"
    /\ call' = [call EXCEPT !.aborted = TRUE, !.promise = Reject(@),
                            !.state = IF @ = "ended" THEN "ended" ELSE "done"]
    /\ UNCHANGED <<sessionToken, lastVerify, outFile, sourceFile, nonClientVars>>

\* the Sender's side of the client's connection: the response is flushed,
\* or the connection is gone before that (after an abort)
ClientSenderFinish == \E i \in 1..Len(sReqs) : SenderFinish(i)
ClientSenderAbort ==
    /\ call.op = "download" /\ call.aborted
    /\ SenderAbort(call.req)

\* the Sender goes on to its next request; a response the client still
\* waits for is read first
ClientSenderSettle ==
    /\ ~(call.state = "sent" /\ sLast.op \in {"verify", "GET"})
    /\ SenderSettle

\* What a Receiver answers to the two requests of upload(), or the
\* connection failing before an answer.
Stage1Responses ==
    {[status |-> 200, body |-> "success", uploadId |-> "u1"],
     [status |-> 200, body |-> "success", uploadId |-> Undefined],
     [status |-> 400, body |-> "failure", uploadId |-> Undefined],
     [status |-> 429, body |-> "failure", uploadId |-> Undefined],
     [status |-> 500, body |-> "text", uploadId |-> Undefined],
     [status |-> 0, body |-> "error", uploadId |-> Undefined]}
Stage2Responses ==
    {[status |-> 200, body |-> "success", uploadId |-> Undefined],
     [status |-> 403, body |-> "failure", uploadId |-> Undefined],
     [status |-> 404, body |-> "failure", uploadId |-> Undefined],
     [status |-> 500, body |-> "text", uploadId |-> Undefined],
     [status |-> 0, body |-> "error", uploadId |-> Undefined]}

\* Mutant: every stage 1 answer is taken for an accepted request.
Stage1Accepted_Any(response) == TRUE

\* result.success && result.uploadId, of a body that parses
Stage1Accepted(response) == response.body = "success" /\ Truthy(response.uploadId)

\* result.success, of a body that parses
Stage2Accepted(response) == response.body = "success"

\* upload(host, port, filePath, verificationCode): POST /request-upload is sent
ClientUploadCall ==
    /\ ClientIdle /\ sourceFile # <<>>
    /\ call' = [NoCall EXCEPT !.op = "upload", !.state = "stage1", !.promise = "pending",
                              !.sent = <<"/request-upload">>]
    /\ UNCHANGED <<sessionToken, lastVerify, outFile, sourceFile, nonClientVars>>

\* upload(): the answer to stage 1, or the request's 'error'
ClientStage1Response(response) ==
    /\ call.op = "upload" /\ call.state = "stage1"
    /\ IF Stage1Accepted(response)
       THEN call' = [call EXCEPT !.state = "stage2", !.stage1 = response,
                                 !.sent = Append(@, "/upload")]
       ELSE call' = [call EXCEPT !.state = "done", !.stage1 = response,
                                 !.promise = Reject(@)]
    /\ UNCHANGED <<sessionToken, lastVerify, outFile, sourceFile, nonClientVars>>

\* upload(): the answer to stage 2, or the request's 'error'
ClientStage2Response(response) ==
    /\ call.op = "upload" /\ call.state = "stage2"
    /\ IF Stage2Accepted(response)
       THEN call' = [call EXCEPT !.state = "done", !.status = response.status,
                                 !.completed = @ + 1, !.promise = Resolve(@)]
       ELSE call' = [call EXCEPT !.state = "done", !.status = response.status,
                                 !.promise = Reject(@)]
    /\ UNCHANGED <<sessionToken, lastVerify, outFile, sourceFile, nonClientVars>>

ClientInit ==
    /\ sessionToken = Undefined
    /\ call = NoCall
    /\ lastVerify = "none"
    /\ outFile = NoOutFile
    /\ sourceFile = <<>>

\* One client against one Sender that runs until the end.
ClientNext ==
    \/ \E source \in FileContents : \E out \in OutFiles(source) :
          ClientPrepare(source, out)
    \/ sourceFile # <<>> /\ SenderStart
    \/ \E code \in generateCode : ClientVerifyCall(code)
    \/ ClientVerifyServed
    \/ ClientVerifyResponse
    \/ \E resume \in BOOLEAN, signal \in BOOLEAN : ClientDownloadCall(resume, signal)
    \/ ClientDownloadServed
    \/ ClientDownloadResponse
    \/ ClientData
    \/ ClientResponseEnd
    \/ ClientWriteFinish
    \/ ClientAbort
    \/ ClientSenderFinish
    \/ ClientSenderAbort
    \/ ClientSenderSettle

\* One client that uploads its file to a Receiver.
UploadNext ==
    \/ \E source \in FileContents, out \in {NoOutFile} : ClientPrepare(source, out)
    \/ ClientUploadCall
    \/ \E response \in Stage1Responses : ClientStage1Response(response)
    \/ \E response \in Stage2Responses : ClientStage2Response(response)

----------------------------------------------------------------------------
\* A Receiver whose clients send their POST /upload requests at the same
\* time: one more request can wait for its body than in ReceiverNext, and
\* the requests announce one file of one size.
ConcurrentUploadNext ==
    \/ \E max \in 0..MaxQuota : setMaxUploads(max)
    \/ ReceiverStart
    \/ \E filename \in Filenames, hash \in Hashes :
          \E code \in CodesDrawn(filename, 1, hash) :
             handleUploadRequest1(TRUE, filename, 1, hash, code)
    \/ \E uploadId \in 1..MaxUploadIds, code \in CodeHeaders, fileHash \in Hashes :
          \E ctype \in ContentTypesRead(uploadId, code, fileHash),
             body \in BodiesRead(uploadId, code, fileHash),
             tok \in TokensDrawn(uploadId, code, fileHash) :
             handleFileUpload(MaxFlights + 1, uploadId, code, fileHash, ctype, body, tok)
    \/ \E k \in 1..MaxFlights + 1 : UploadEnd(k)
    \/ \E k \in 1..MaxFlights + 1 : UploadBodyError(k)
    \/ ReceiverSettle

----------------------------------------------------------------------------
\* A Sender or a Receiver through its whole life: requests, transfers that
\* complete or fail, limit changes, stops and restarts.

\* Mutant: cleanup() also resets the upload counter.
ReceiverStopServer_Resets ==
    /\ ReceiverIdle /\ receiverServer
    /\ receiverServer' = FALSE
    /\ pendingUploads' = <<>>
    /\ rFlights' = <<>>
    /\ uploadCount' = 0
    /\ rLast' = [RIdle EXCEPT !.op = "stop"]
    /\ UNCHANGED <<maxUploads, requirePerFileVerification,
                   globalVerificationManager, managers, nextUploadId, uploadDir, now,
                   rEmitted, completedIds, senderVars, restVars>>

\* LanReceiver.stopServer() up to the end of cleanup(): the sockets of the
\* requests whose body is still awaited are destroyed, the server is dropped
\* and pendingUploads is cleared.
ReceiverStopServer ==
    /\ ReceiverIdle /\ receiverServer
    /\ receiverServer' = FALSE
    /\ pendingUploads' = <<>>
    /\ rFlights' = <<>>
    /\ rLast' = [RIdle EXCEPT !.op = "stop"]
    /\ UNCHANGED <<uploadCount, maxUploads, requirePerFileVerification,
                   globalVerificationManager, managers, nextUploadId, uploadDir, now,
                   rEmitted, completedIds, senderVars, restVars>>

\* Either server on its own, the other one left as constructed.
CounterNext ==
    \/ /\ ReceiverInit
       /\ \/ SenderLifeNext
          \/ \E max \in 0..MaxQuota : setMaxDownloads(max)
          \/ \E i \in 1..MaxReq : SenderAbort(i)
    \/ /\ SenderInit
       /\ \/ ReceiverNext
          \/ ReceiverStopServer

----------------------------------------------------------------------------
\* Range headers.  A header is a sequence of symbols: the unit prefix
\* "bytes=" is one symbol, the others are single characters.

HeaderSymbols == {"bytes=", "0", "1", "2", "-", "x"}
RangeStrings == UNION {[1..n -> HeaderSymbols] : n \in 0..MaxHeaderLen}
FileSizes == 0..MaxSize

\* NaN, which no integer the model computes with equals
NaN == -1000000
isNaN(v) == v = NaN
MathMax(a, b) == IF a >= b THEN a ELSE b
MathMin(a, b) == IF a <= b THEN a ELSE b

IsDigit(c) == c \in {"0", "1", "2"}
DigitValue(c) == IF c = "0" THEN 0 ELSE IF c = "1" THEN 1 ELSE 2
RECURSIVE ParseDigits(_, _, _)
ParseDigits(str, i, acc) ==
    IF i > Len(str) \/ ~IsDigit(str[i]) THEN acc
    ELSE ParseDigits(str, i + 1, acc * 10 + DigitValue(str[i]))
\* parseInt(str, 10): the value of the leading digits, NaN if there are none
parseInt(str) ==
    IF str = <<>> \/ ~IsDigit(str[1]) THEN NaN ELSE ParseDigits(str, 1, 0)

\* str.split(sep)
RECURSIVE split(_, _)
split(str, sep) ==
    LET index == IndexOf(str, sep, 1)
    IN IF index = 0 THEN <<str>>
       ELSE <<SubSeq(str, 1, index - 1)>> \o split(SubSeq(str, index + 1, Len(str)), sep)
\* parts[i] of a split; an absent part and an empty one are both falsy
Part(parts, i) == IF i + 1 <= Len(parts) THEN parts[i + 1] ELSE <<>>

\* str.startsWith('bytes=')
StartsWithBytes(str) == str # <<>> /\ str[1] = "bytes="
\* str.replace(/bytes=/, ''): the first occurrence is removed
ReplaceBytes(str) ==
    LET index == IndexOf(str, "bytes=", 1)
    IN IF index = 0 THEN str
       ELSE SubSeq(str, 1, index - 1) \o SubSeq(str, index + 1, Len(str))

Null == [null |-> TRUE]

\* parseRange(rangeHeader, totalSize)
parseRange(rangeHeader, totalSize) ==
    IF rangeHeader = <<>> \/ ~StartsWithBytes(rangeHeader) THEN Null
    ELSE LET rangeValue == ReplaceBytes(rangeHeader)
             parts == split(rangeValue, "-")
         IN IF rangeValue = <<>> THEN Null
            ELSE IF Part(parts, 0) = <<>> /\ Part(parts, 1) # <<>>
            THEN LET suffix == parseInt(Part(parts, 1))
                 IN IF isNaN(suffix) \/ suffix <= 0 THEN Null
                    ELSE [start |-> MathMax(0, totalSize - suffix),
                          end |-> totalSize - 1]
            ELSE LET start == parseInt(Part(parts, 0))
                     end == IF Part(parts, 1) # <<>> THEN parseInt(Part(parts, 1))
                            ELSE totalSize - 1
                 IN IF isNaN(start) \/ isNaN(end) \/ start < 0
                       \/ start >= totalSize \/ start > end
                    THEN Null
                    ELSE [start |-> start, end |-> MathMin(end, totalSize - 1)]

NoRangeCall == [op |-> "none", header |-> <<>>, size |-> 0, result |-> Null]

\* a call of parseRange (a behaviour follows one call)
ParseRangeCall(header, size) ==
    /\ rangeCall = NoRangeCall
    /\ rangeCall' = [op |-> "parseRange", header |-> header, size |-> size,
                     result |-> parseRange(header, size)]
    /\ UNCHANGED <<senderVars, receiverVars, vmVars, cliVars, discVars, clientVars>>

\* LanSender.handleRequest, the branch for a request with a Range header
\* that passed the lookup, the token gate and the quota: what writeHead(206)
\* is given, and whether fs.createReadStream(filePath, {start, end}) throws
\* (it does for a start or end that is no integer and for start > end).
SenderRange(range, fileSize) ==
    LET parts == split(ReplaceBytes(range), "-")
        start == parseInt(Part(parts, 0))
        end == IF Part(parts, 1) # <<>> THEN parseInt(Part(parts, 1)) ELSE fileSize - 1
        chunkSize == IF isNaN(start) \/ isNaN(end) THEN NaN ELSE end - start + 1
    IN [status |-> 206, start |-> start, end |-> end, contentLength |-> chunkSize,
        throws |-> isNaN(start) \/ isNaN(end) \/ start > end]

\* a GET with a Range header that reaches the range branch
SenderRangeGet(range, fileSize) ==
    /\ rangeCall = NoRangeCall
    /\ range # <<>>
    /\ rangeCall' = [op |-> "GET", header |-> range, size |-> fileSize,
                     result |-> SenderRange(range, fileSize)]
    /\ UNCHANGED <<senderVars, receiverVars, vmVars, cliVars, discVars, clientVars>>

RangeInit == rangeCall = NoRangeCall

SenderRangeNext ==
    \E range \in RangeStrings, fileSize \in FileSizes : SenderRangeGet(range, fileSize)

ParseRangeNext ==
    \E header \in RangeStrings, size \in FileSizes : ParseRangeCall(header, size)

Init ==
    /\ SenderInit /\ ReceiverInit /\ VmInit /\ CliInit /\ DiscInit /\ ClientInit
    /\ RangeInit

\* The Sender and the Receiver are separate servers; each is explored on its own.
SenderSpec == Init /\ [][SenderNext]_vars
ReceiverSpec == Init /\ [][ReceiverNext]_vars
SenderLifeSpec == Init /\ [][SenderLifeNext]_vars
CliSendSpec == Init /\ [][CliSendNext]_vars
CliFlowSpec == Init /\ [][CliFlowNext]_vars
SenderStopSpec == Init /\ [][SenderStopNext]_vars /\ SenderStopFairness
\* A VerificationManager under any sequence of calls.
VmSpec == Init /\ [][VmNext]_vars
\* A LanDiscovery under any sequence of calls and events.
DiscoverySpec == Init /\ [][DiscoveryNext]_vars
\* A client and the Sender it talks to.
ClientSpec == Init /\ [][ClientNext]_vars
UploadSpec == Init /\ [][UploadNext]_vars
\* A Sender or a Receiver with limit changes, failures, stops and restarts.
CounterSpec == Init /\ [][CounterNext]_vars
\* The Sender's answer to any Range header on a file of any size.
SenderRangeSpec == Init /\ [][SenderRangeNext]_vars
\* A Receiver with POST /upload requests in flight at the same time.
ConcurrentUploadSpec == Init /\ [][ConcurrentUploadNext]_vars
\* parseRange on any header and file size.
ParseRangeSpec == Init /\ [][ParseRangeNext]_vars

Next == SenderNext \/ SenderLifeNext \/ SenderStopNext \/ CliSendNext \/ CliFlowNext \/ ReceiverNext \/ VmNext
           \/ DiscoveryNext \/ ClientNext \/ UploadNext \/ ParseRangeNext
           \/ CounterNext \/ SenderRangeNext \/ ConcurrentUploadNext
Spec == Init /\ [][Next]_vars

----------------------------------------------------------------------------
\* Properties of the Sender (checked under SenderSpec)

\* the last step handled a GET that names the registered file
LastGetOfFile == sLast.op = "GET" /\ FindFile(files, sLast.path) # {}
\* the GET carries a verified token as the token parameter or as X-Session-Token
CarriesVerifiedToken ==
    \E t \in {sLast.qtoken, sLast.htoken} : Truthy(t) /\ t \in senderVm.verifiedSessions
\* the GET was answered with the file: 200 or 206 and transfer-started
Served == sLast.status \in {200, 206} /\ "transfer-started" \in sLast.events
\* the GET was refused with 403 and no byte of the file is on its way
Refused403 ==
    /\ sLast.status = 403
    /\ "transfer-started" \notin sLast.events
    /\ sReqs[sLast.req].phase = "done" /\ ~sReqs[sLast.req].started

Authorized ==
    ~requireVerification
    \/ isSessionVerified(senderVm, OrElse(sLast.qtoken, sLast.htoken))

\* the requests that completed (res 'finish' ran)
Completed == {i \in 1..Len(sReqs) : sReqs[i].completed > 0}

\* C2: with maxDownloads = N > 0 and N downloads completed, an authorized GET
\* of the file is answered 429 and starts no transfer; a request answered 429
\* never completes, and downloadCount counts the served requests that
\* finished and nothing else.
C2_QuotaRefuses ==
    /\ (/\ LastGetOfFile /\ Authorized
        /\ maxDownloads > 0 /\ downloadCount >= maxDownloads)
       => /\ sLast.status = 429
          /\ "transfer-started" \notin sLast.events
          /\ sReqs[sLast.req].phase = "done"
    /\ \A i \in 1..Len(sReqs) :
          sReqs[i].status = 429 =>
             /\ ~sReqs[i].started /\ sReqs[i].completed = 0
             /\ sReqs[i].phase = "done"
    /\ downloadCount = Cardinality(Completed)
    /\ \A i \in Completed : sReqs[i].completed = 1 /\ sReqs[i].status \in {200, 206}

\* C2 witness: the limit is reached and a GET with a verified token gets 429.
C2_Witness ==
    /\ LastGetOfFile /\ requireVerification /\ CarriesVerifiedToken
    /\ maxDownloads > 0 /\ downloadCount = maxDownloads
    /\ sLast.status = 429

\* C3: with maxDownloads = N > 0, downloadCount and the number of
\* transfer-completed events never exceed N.
C3_CountWithinQuota ==
    maxDownloads > 0 =>
        /\ downloadCount <= maxDownloads
        /\ sEmitted["transfer-completed"] <= maxDownloads

\* C4: with maxDownloads = N > 0, download-limit-reached is emitted once: not
\* before the N-th download completes, and never a second time.
C4_LimitReachedOnce ==
    maxDownloads > 0 =>
        /\ sEmitted["download-limit-reached"] <= 1
        /\ sEmitted["download-limit-reached"] = 1 <=> downloadCount >= maxDownloads

----------------------------------------------------------------------------
\* Properties of the Receiver (checked under ReceiverSpec)

\* C5: with maxUploads = N > 0, uploadCount never exceeds N, so GET /health
\* never reports a negative uploadsRemaining.
C5_UploadsWithinQuota ==
    maxUploads > 0 =>
        /\ uploadCount <= maxUploads
        /\ rLast.op = "health" => rLast.remaining >= 0

\* the last step emitted upload-completed
UploadCompleted == rLast.op = "upload-end" /\ "upload-completed" \in rLast.events

\* C6: when upload-completed is emitted, the file stored under the filename
\* declared at stage 1 has the sha-256 declared at stage 1 and sent as
\* X-File-Hash, and it holds the bytes of the client's file whenever these
\* are the bytes whose hash the client declared.
C6_StoredAsSent ==
    UploadCompleted =>
        LET stored == uploadDir[rLast.filename]
        IN /\ stored # NoFile
           /\ Hash(stored) = rLast.declared
           /\ Hash(stored) = rLast.hash
           /\ \A c \in Contents :
                 (rLast.body = ClientBody(c) /\ Hash(c) = rLast.declared) => stored = c

\* C6 witness: an upload of bytes that end in CRLF completed.
C6_Witness ==
    /\ UploadCompleted /\ rLast.status = 200
    /\ rLast.body = ClientBody(<<"x", "N">>)

\* the last step handled a POST /upload with its three headers for an
\* uploadId that is pending
LastUploadOfPending ==
    /\ rLast.op = "upload" /\ rLast.uploadId \in DOMAIN pendingUploads
    /\ rLast.code # NoCode /\ rLast.hash # NoHash
\* the VerificationManager of the upload the last step was about
LastManager == managers[pendingUploads[rLast.uploadId].verificationManager]
\* the code of that request is the manager's
LastCodeRight == Trim(rLast.code) = LastManager.verificationCode

\* the X-File-Hash of that request differs from the hash declared at stage 1
HashMismatch ==
    LastUploadOfPending /\ pendingUploads[rLast.uploadId].hash # rLast.hash

\* C7: a POST /upload whose X-File-Hash differs from the hash declared at
\* stage 1 is answered 400 when it reaches the comparison (its code is the
\* manager's; a wrong code is answered 403 before); in either case the body
\* is not read, no file is written, uploadCount is unchanged and no
\* upload-completed is emitted.
C7_HeaderHashMismatch ==
    /\ [](HashMismatch =>
            /\ IF LastCodeRight
               THEN /\ rLast.status = 400
                    /\ rLast.message = "File hash does not match initial request"
               ELSE rLast.status = 403
            /\ rLast.flight = 0
            /\ "upload-completed" \notin rLast.events)
    /\ [][(HashMismatch' /\ rLast' # rLast) =>
            /\ uploadDir' = uploadDir /\ uploadCount' = uploadCount
            /\ completedIds' = completedIds /\ rFlights' = rFlights
            /\ rEmitted' = rEmitted]_vars

\* C7 witness: a request with the right code and another hash got 400.
C7_Witness ==
    /\ HashMismatch /\ LastCodeRight
    /\ rLast.status = 400

\* the last step handled the body of an upload whose file part does not hash
\* to the declared hash
ReceivedOtherBytes ==
    /\ rLast.op = "upload-end"
    /\ parseMultipartUpload(rLast.body).file
    /\ Hash(parseMultipartUpload(rLast.body).data) # rLast.declared

\* the step handles the body of such an upload
CorruptUploadStep ==
    /\ rLast'.op = "upload-end" /\ rLast.op # "upload-end"
    /\ parseMultipartUpload(rLast'.body).file
    /\ Hash(parseMultipartUpload(rLast'.body).data) # rLast'.declared

\* C8: when the received bytes hash differently from the declared hash, the
\* answer is 400, the file written under the declared filename is gone when
\* the answer is sent, uploadCount is not incremented and no upload-completed
\* is emitted.
C8_CorruptUploadDeleted ==
    /\ [](ReceivedOtherBytes
          => /\ rLast.status = 400
             /\ uploadDir[rLast.filename] = NoFile
             /\ "upload-completed" \notin rLast.events)
    /\ [][CorruptUploadStep =>
            uploadCount' = uploadCount /\ completedIds' = completedIds]_vars

\* C8 witness: the body of a client whose file contains the delimiter was
\* written, found different and deleted.
C8_Witness ==
    /\ ReceivedOtherBytes /\ rLast.status = 400
    /\ rLast.body = ClientBody(<<"x", "B", "y">>)
    /\ rLast.declared = Hash(<<"x", "B", "y">>)

\* C9: a POST /upload with a code that is not the manager's is answered 403
\* with verification-failed and the body is not read; the step leaves the
\* PendingUploads, uploadCount and the upload directory as they were; and a
\* POST /upload with the right code is never answered 403, however many
\* attempts failed before it.
C9_WrongCodeNoLockout ==
    /\ [](LastUploadOfPending =>
            IF LastCodeRight
            THEN rLast.status \notin {403, 404}
            ELSE /\ rLast.status = 403 /\ rLast.flight = 0
                 /\ "verification-failed" \in rLast.events)
    /\ [][(LastUploadOfPending' /\ ~LastCodeRight' /\ rLast' # rLast) =>
            /\ pendingUploads' = pendingUploads /\ managers' = managers
            /\ uploadCount' = uploadCount /\ uploadDir' = uploadDir
            /\ rFlights' = rFlights /\ rEmitted' = rEmitted]_vars

\* C9 witness: after MaxFailTracked attempts answered 403 one after the
\* other, the right code is accepted for the same uploadId.
C9_Witness ==
    /\ LastUploadOfPending /\ LastCodeRight
    /\ rLast.failures >= MaxFailTracked /\ rLast.flight > 0

\* C10: a POST /upload for a PendingUpload that has been unverified for more
\* than 5 minutes is answered 404.
C10_ExpiredIs404 ==
    (/\ LastUploadOfPending
     /\ Expired(pendingUploads[rLast.uploadId], now))
    => rLast.status = 404

----------------------------------------------------------------------------
\* Properties of the VerificationManager (checked under VmSpec)

\* C11: verifyAndCreateSession(c) with the manager's code c returns
\* valid = true and a token the manager has not returned before, which
\* isSessionVerified accepts; with any other string it returns valid = false
\* and adds no session.
C11_FreshSessionForExactCode ==
    vLast.op = "verify" =>
        IF vLast.code = vLast.vcode
        THEN /\ vLast.valid /\ vLast.fresh
             /\ isSessionVerified(verificationManager, vLast.token)
        ELSE ~vLast.valid /\ ~vLast.added

----------------------------------------------------------------------------
\* Properties of the Sender's life cycle (checked under SenderLifeSpec)

\* every stopServer() call made so far has resolved
AllStopsResolved == \A k \in 1..Len(sStops) : Resolved(k)

\* C12: a token POST /verify handed out stays accepted as long as no stop has
\* been called since, and once a stop has resolved the manager accepts only
\* tokens handed out after that stop was called, also after a restart.
C12_TokensLiveUntilStop ==
    /\ \A t \in sTokens : isSessionVerified(senderVm, t)
    /\ AllStopsResolved =>
          \A t \in TokenPool : isSessionVerified(senderVm, t) => t \in sTokens

\* C15: every stopServer() call resolves its promise: at once when there is
\* no server, else when the server has closed or, if a connection keeps it
\* from closing, when the force-close timer of the call fires.
C15_StopResolves ==
    \A k \in 1..MaxStops : (k <= Len(sStops)) ~> (k <= Len(sStops) /\ Resolved(k))

\* C15 witness: a call whose server a connection kept open was resolved by
\* its force-close timer.
C15_Witness ==
    \E k \in 1..Len(sStops) : sStops[k].timer = "fired" /\ Resolved(k)

\* C16: stopping a Sender that was started once, and not stopped before,
\* emits 'server-stopped' once, however many times stopServer(), stop() or
\* destroy() are called.
C16_StoppedOnce ==
    Len(sServers) = 1 /\ Len(sStops) > 0 /\ sStops[1].server = 1 =>
        sEmitted["server-stopped"] <= 1

----------------------------------------------------------------------------
\* Status codes of refusals

\* the last step handled a POST /verify whose code the Sender did not accept
VerifyRefused == sLast.op = "verify" /\ "verification-failed" \in sLast.events
\* the last step handled a POST /upload for a pending uploadId, with its
\* X-File-Hash, whose X-Verification-Code is absent or not the manager's
UploadCodeRefused ==
    /\ rLast.op = "upload" /\ rLast.uploadId \in DOMAIN pendingUploads
    /\ rLast.hash # NoHash
    /\ rLast.code = NoCode \/ ~LastCodeRight

\* C13: a request refused for its verification code or its session token is
\* answered 403: a POST /verify with a wrong code, a GET of the file without
\* a verified token, a POST /upload with a wrong or an absent code.
C13_RefusalsAre403 ==
    /\ VerifyRefused => sLast.status = 403
    /\ LastGetOfFile /\ requireVerification /\ ~CarriesVerifiedToken => sLast.status = 403
    /\ UploadCodeRefused => rLast.status = 403

\* the messages of the 400 answers to a request whose body or headers are
\* malformed: JSON that does not parse, absent fields, absent headers, a
\* Content-Type that is not multipart/form-data or has no boundary
MalformedMessages ==
    {"Invalid request", "Missing required fields",
     "Missing upload ID, verification code, or file hash",
     "Invalid content type", "Invalid multipart boundary"}

\* this step of the Receiver answers a request 400 for being malformed
AnswersMalformed ==
    /\ rLast' # rLast
    /\ rLast'.op \in {"request-upload", "upload"}
    /\ rLast'.status = 400 /\ rLast'.message \in MalformedMessages

\* C14: a request the Receiver answers 400 for a malformed body or malformed
\* headers changes nothing: not the pending uploads and their verified
\* flags, not the verified sessions, not uploadCount, not the upload
\* directory.
C14_MalformedChangesNothing ==
    [][AnswersMalformed =>
          UNCHANGED <<pendingUploads, managers, globalVerificationManager,
                      uploadCount, uploadDir>>]_vars

----------------------------------------------------------------------------
\* Properties of the send command (checked under CliSendSpec)

\* C17: with --limit N, N > 1 or N = 0 (unlimited), the send command stops
\* its Sender only once the N-th download has completed: never for N = 0,
\* and not after an earlier download.
C17_StopsAtLimitOnly ==
    maxDownloads # 1 /\ Len(sStops) > 0 =>
        maxDownloads > 0 /\ downloadCount >= maxDownloads

----------------------------------------------------------------------------
\* Properties of the selection flow (checked under CliFlowSpec)

\* the ways the selection flow ends
FlowOutcomes == {"no-selection", "code-cancelled", "transferred", "failed"}

\* a step of the selection flow: the menu, the code prompt or the transfer
\* goes on or ends
FlowStep ==
    /\ pc \in {"select", "confirm-empty", "confirm-cancel", "research", "code", "transfer"}
    /\ pc' # pc

DiscoveryReturns == pc = "discovering" /\ pc' # "discovering"

\* C19: startDiscovery returns, and the menu is first presented, only when
\* the timer armed by the first service of the opposite role has fired, at
\* least autoShowDelay after that service was found, and a service is in
\* the device set; a service of another role is never in the set.
C19_MenuAfterDelay ==
    /\ [](\A d \in devices : d.role = IF mode = "send" THEN "receiver" ELSE "sender")
    /\ [][DiscoveryReturns =>
             /\ firstFound # NoTime /\ clock >= firstFound + autoShowDelay
             /\ selectionTimeout.state = "fired"
             /\ devices # {}]_vars

\* C19 witness: the menu is presented autoShowDelay after the first service
\* was found.
C19_Witness ==
    pc = "select" /\ firstFound # NoTime /\ clock = firstFound + autoShowDelay

\* the step on which showDeviceSelectionMenu returns to the command
MenuReturns ==
    pc \in {"select", "confirm-empty", "confirm-cancel", "research"}
    /\ pc' \in {"keepAlive", "code"}

\* C20 as claimed: a menu that found the device set empty does not return
\* before a service has come up.
C20_NoReturnWhileEmpty ==
    [][MenuReturns => sinceEmpty # "waiting"]_vars

\* C20: a menu that found the device set empty returns before a service has
\* come up only if the user declines the search it offers, and then it
\* returns no selection; a search started without devices ends only when
\* the set holds a service, and the discovery keeps running meanwhile.
C20_SearchUntilFoundOrDeclined ==
    [][/\ MenuReturns /\ sinceEmpty = "waiting" =>
             pc = "confirm-empty" /\ outcome' = "no-selection"
       /\ pc = "research" /\ ~research.hasInitialDevices /\ pc' # "research" =>
             devices # {}
       /\ sinceEmpty = "waiting" => browser']_vars

\* C20 witness: the menu found no device, the user had it search, a service
\* came up and the menu offers it.
C20_Witness ==
    pc = "select" /\ sinceEmpty = "appeared" /\ choices # {}

\* the step on which a researchDevices that started without devices resolves
UntimedSearchReturns ==
    pc = "research" /\ ~research.hasInitialDevices /\ pc' # "research"

\* C21: a search started without devices resolves only when a service of
\* the role looked for has come up during it and the device set is not
\* empty, however long that takes; the menu then offers the devices.
C21_UntimedSearchUntilFound ==
    [][UntimedSearchReturns =>
          /\ research.found # {} /\ devices # {}
          /\ pc' = "select" /\ choices' # {}]_vars

\* C21 witness: a search started without devices went on beyond
\* researchDuration and resolved once a service had come up.
C21_Witness ==
    /\ pc = "select" /\ ~research.hasInitialDevices /\ research.endTime # NoTime
    /\ research.endTime - research.startTime > researchDuration
    /\ research.found # {}

\* the step on which a researchDevices that started with devices resolves
TimedSearchReturns ==
    pc = "research" /\ research.hasInitialDevices /\ pc' # "research"

\* C22: a search started with a device known resolves no earlier than
\* researchDuration after its start, whatever comes up or goes down
\* meanwhile, and the menu then goes round its loop: it shows its select
\* prompt, or its search prompt if no device is left.
C22_TimedSearchWindow ==
    [][TimedSearchReturns =>
          /\ clock - research.startTime >= researchDuration
          /\ pc' \in {"select", "confirm-empty"}]_vars

\* C22 witness: a search started with a device known resolved exactly
\* researchDuration later, a service having come up during it.
C22_Witness ==
    /\ pc = "select" /\ research.hasInitialDevices
    /\ research.endTime = research.startTime + researchDuration
    /\ research.found # {}

\* C23: the select prompt shown after a search offers only devices whose
\* service came up during that search.
C23_MenuListsOnlyNewDevices ==
    pc = "select" /\ research.endTime # NoTime =>
        {d.id : d \in choices} \subseteq research.found

----------------------------------------------------------------------------
\* Properties of LanDiscovery (checked under DiscoverySpec)

\* the records of discoveredServices with this host:port
RecordsAt(h) == {r \in discoveredServices : r.host = h}

\* C24: discoveredServices never holds two records with the same host:port,
\* and it holds a record for the host:port of every service that is up
\* (announced by the browser and not withdrawn).
C24_OneRecordPerHostPort ==
    /\ \A h \in ServiceIds : Cardinality(RecordsAt(h)) <= 1
    /\ \A service \in browserServices : RecordsAt(service.host) # {}

\* the instance after destroy()
TornDown ==
    /\ ~browser /\ ~publishedService /\ discoveredServices = {}
    /\ bonjour = "destroyed" /\ ~discoveryListeners

\* C25: every destroy() leaves the instance without browser, published
\* service, discovered services and listeners, whatever it was doing; a
\* destroy() of a torn-down instance changes nothing of it.
C25_DestroyIdempotent ==
    [][Len(destroys') > Len(destroys) =>
          /\ TornDown'
          /\ TornDown => UNCHANGED <<browser, publishedService, discoveredServices,
                                     bonjour, browserServices, discoveryListeners>>]_vars

\* C25 witness: destroy() was called on an instance that advertised and
\* browsed and knew a service, and then again on the torn-down instance.
C25_Witness ==
    /\ Len(destroys) = 2 /\ TornDown
    /\ destroys[1].browser /\ destroys[1].publishedService
    /\ destroys[1].services
    /\ ~destroys[2].browser /\ ~destroys[2].publishedService
    /\ ~destroys[2].services

----------------------------------------------------------------------------
\* Properties of the client (checked under ClientSpec)

\* the step on which the Sender handles the GET of the client's download()
ClientGetHandled == call.op = "download" /\ call.state = "sent" /\ sLast'.op = "GET"

C27_UploadTwoStages ==
    /\ [](call.op = "upload" =>
            /\ Len(call.sent) <= 2
            /\ "/upload" \in {call.sent[i] : i \in 1..Len(call.sent)} =>
                  /\ call.sent = <<"/request-upload", "/upload">>
                  /\ call.stage1.body = "success" /\ Truthy(call.stage1.uploadId)
            /\ call.state = "done" =>
                  call.promise = IF /\ call.stage1.body = "success"
                                    /\ Truthy(call.stage1.uploadId)
                                    /\ call.status = 200
                                 THEN "resolved" ELSE "rejected")
    /\ [][call.op = "upload" /\ call.promise = "rejected" /\ call'.promise # "pending"
             => call'.sent = call.sent]_vars

\* C27 witness: stage 1 was accepted, POST /upload was sent and answered 403,
\* and the promise is rejected with the two requests sent once each.
C27_Witness ==
    /\ call.op = "upload" /\ call.state = "done" /\ call.promise = "rejected"
    /\ call.sent = <<"/request-upload", "/upload">> /\ call.status = 403

\* C28: once a download is aborted its promise is rejected and no
\* 'completed' event is, or has been, emitted for it.
C28_NoCompletedAfterAbort ==
    call.op = "download" /\ call.aborted =>
        call.promise = "rejected" /\ call.completed = 0

\* C29: download() sends a Range header exactly when it resumes a file of
\* k > 0 bytes, with startByte = k; a download that completes from byte 0, or
\* from the end of a partial copy of the source, leaves the source's bytes
\* at outputPath.
C29_ResumeAppends ==
    /\ [](call.op = "download" /\ call.completed > 0
             /\ (call.startByte = 0 \/ call.partial)
                => outFile = [exists |-> TRUE, bytes |-> sourceFile])
    /\ [][ClientGetHandled =>
             LET k == IF call.resume /\ outFile.exists THEN Len(outFile.bytes) ELSE 0
             IN /\ call.startByte = k
                /\ sLast'.range = IF k > 0 THEN "ok" ELSE "none"]_vars

\* C29 witness: a download resumed a partial copy, was answered 206 and
\* completed with the source's bytes at outputPath.
C29_Witness ==
    /\ call.op = "download" /\ call.resume /\ call.partial /\ call.startByte > 0
    /\ call.status = 206 /\ call.completed = 1
    /\ outFile.bytes = sourceFile

----------------------------------------------------------------------------
\* Properties of the Receiver's verification codes (checked under ReceiverSpec)

\* the code of the VerificationManager a pending upload is bound to
CodeOfUpload(id) == managers[pendingUploads[id].verificationManager].verificationCode

\* C30: the code shown in upload-requested is the code of the manager the
\* upload is bound to, and neither the binding nor a manager's code ever
\* changes; a POST /upload that reaches the code check is answered 403
\* exactly if its code is not that code; in per-file mode every accepted
\* request gets a manager of its own, in global mode the one global manager.
C30_AcceptedCodeIsSurfacedCode ==
    [][/\ \A m \in 1..Len(managers) :
             managers'[m].verificationCode = managers[m].verificationCode
       /\ \A id \in DOMAIN pendingUploads \cap DOMAIN pendingUploads' :
             pendingUploads'[id].verificationManager =
                pendingUploads[id].verificationManager
       /\ rLast'.op = "request-upload" /\ rLast'.status = 200 =>
             LET id == rLast'.uploadId
                 m == pendingUploads'[id].verificationManager
             IN /\ rLast'.code = managers'[m].verificationCode
                /\ IF requirePerFileVerification
                   THEN /\ m = Len(managers) + 1
                        /\ \A j \in DOMAIN pendingUploads' \ {id} :
                              pendingUploads'[j].verificationManager # m
                   ELSE /\ m = globalVerificationManager'
                        /\ globalVerificationManager # 0 => m = globalVerificationManager
       /\ rLast'.op = "upload" /\ rLast'.uploadId \in DOMAIN pendingUploads
             /\ rLast'.code # NoCode /\ rLast'.hash # NoHash =>
             (rLast'.status = 403 <=> rLast'.code # CodeOfUpload(rLast'.uploadId))]_vars

\* C30 witness: in per-file mode a POST /upload presented the code of another
\* pending upload, which is not its own, and was answered 403.
C30_Witness ==
    /\ requirePerFileVerification
    /\ rLast.op = "upload" /\ rLast.status = 403
    /\ rLast.uploadId \in DOMAIN pendingUploads
    /\ \E j \in DOMAIN pendingUploads \ {rLast.uploadId} :
          /\ rLast.code = CodeOfUpload(j)
          /\ CodeOfUpload(j) # CodeOfUpload(rLast.uploadId)

----------------------------------------------------------------------------
\* Properties of Range parsing (checked under ParseRangeSpec)

\* the header bytes=<v>, v a sequence of characters
BytesHeader(v) == <<"bytes=">> \o v
Digit == <<"0", "1", "2">>

\* C31: parseRange returns null or {start, end} with
\* 0 <= start <= end <= size-1; bytes=a-b gives {a, min(b, size-1)}, bytes=a-
\* gives {a, size-1}, bytes=-n gives {max(0, size-n), size-1}; the result is
\* null for a header that does not start with bytes=, for start > end and
\* for start >= size.
C31_ParseRangeContract ==
    rangeCall.op = "parseRange" =>
        LET r == rangeCall.result
            h == rangeCall.header
            size == rangeCall.size
        IN /\ r # Null => 0 <= r.start /\ r.start <= r.end /\ r.end <= size - 1
           /\ ~StartsWithBytes(h) => r = Null
           /\ \A a \in 0..2, b \in 0..2 :
                 h = BytesHeader(<<Digit[a + 1], "-", Digit[b + 1]>>) =>
                    r = IF a > b \/ a >= size THEN Null
                        ELSE [start |-> a, end |-> MathMin(b, size - 1)]
           /\ \A a \in 0..2 :
                 h = BytesHeader(<<Digit[a + 1], "-">>) =>
                    r = IF a >= size THEN Null ELSE [start |-> a, end |-> size - 1]
           /\ \A n \in 1..2 :
                 h = BytesHeader(<<"-", Digit[n + 1]>>) =>
                    r = [start |-> MathMax(0, size - n), end |-> size - 1]

----------------------------------------------------------------------------
\* Further properties of the VerificationManager (checked under VmSpec)

\* C32: once a manager is constructed, no call on it changes the code that
\* getCode() returns.
C32_CodeStable ==
    [][verificationManager # NullManager =>
          verificationManager'.verificationCode =
             verificationManager.verificationCode]_vars

----------------------------------------------------------------------------
\* Properties of the transfer counters (checked under CounterSpec)

\* the downloads that finished, over all requests
RECURSIVE DownloadsCompleted(_)
DownloadsCompleted(reqs) ==
    IF reqs = <<>> THEN 0
    ELSE reqs[Len(reqs)].completed + DownloadsCompleted(SubSeq(reqs, 1, Len(reqs) - 1))
\* the uploads that completed, over all uploadIds
RECURSIVE UploadsCompleted(_, _)
UploadsCompleted(done, n) ==
    IF n = 0 THEN 0 ELSE done[n] + UploadsCompleted(done, n - 1)

----------------------------------------------------------------------------
\* Further properties of the Sender (checked under SenderSpec)

\* C34: with verification required, a GET that carries no verified session
\* token is answered 403 whatever path it names.
C34_UnauthorizedAlways403 ==
    sLast.op = "GET" /\ requireVerification /\ ~CarriesVerifiedToken =>
        sLast.status = 403

----------------------------------------------------------------------------
\* Further properties of the Receiver (checked under ReceiverSpec)

\* the last step handled a POST /request-upload whose body parsed
LastRequestUpload == rLast.op = "request-upload" /\ rLast.message # "Invalid request"

\* C35: a POST /request-upload is answered 400 "Missing required fields"
\* only if filename, size or hash is absent from the body; a body with all
\* three, size 0 included, is accepted while the quota is not reached: it
\* gets a new uploadId with one pending upload and emits upload-requested.
C35_CompleteRequestAccepted ==
    LastRequestUpload =>
        LET complete == rLast.filename # "" /\ rLast.size # NoSize /\ rLast.hash # NoHash
        IN /\ rLast.message = "Missing required fields" => ~complete
           /\ complete /\ ~UploadLimitReached(uploadCount, maxUploads) =>
                 /\ rLast.status = 200
                 /\ rLast.uploadId = nextUploadId
                 /\ rLast.uploadId \in DOMAIN pendingUploads
                 /\ rLast.events = {"upload-requested"}

----------------------------------------------------------------------------
\* Properties of the Sender's Range handling (checked under SenderRangeSpec)

\* C36: whatever the Range header, a 206 of the Sender carries integers
\* start and end with 0 <= start <= end <= fileSize-1 in Content-Range and
\* Content-Length = end - start + 1.
C36_ValidSliceOn206 ==
    rangeCall.op = "GET" /\ rangeCall.result.status = 206 =>
        LET r == rangeCall.result
        IN /\ ~isNaN(r.start) /\ ~isNaN(r.end) /\ ~isNaN(r.contentLength)
           /\ 0 <= r.start /\ r.start <= r.end /\ r.end <= rangeCall.size - 1
           /\ r.contentLength = r.end - r.start + 1

----------------------------------------------------------------------------
\* Properties of uploads in flight together (checked under ConcurrentUploadSpec)

\* C37: an uploadId completes at most once (one upload-completed, one
\* increment of uploadCount), and a POST /upload that names an uploadId
\* that has completed is answered 404.
C37_OneCompletionPerUpload ==
    /\ \A id \in 1..MaxUploadIds : completedIds[id] <= 1
    /\ uploadCount <= Cardinality({id \in 1..MaxUploadIds : completedIds[id] > 0})
    /\ rLast.op = "upload" /\ rLast.uploadId # 0 /\ rLast.code # NoCode
          /\ rLast.hash # NoHash /\ completedIds[rLast.uploadId] > 0
          => rLast.status = 404

----------------------------------------------------------------------------
\* Further properties of stopping (checked under SenderStopSpec)

\* C38: one stopServer() call on a started server runs cleanup once: the
\* force-close timer and the callback of server.close() do not both run it,
\* so 'server-stopped' is emitted once for the call.
C38_OneCleanupPerStop ==
    Len(sStops) = 1 /\ sStops[1].server = 1 /\ sStops[1].kind = "stopServer" =>
        sEmitted["server-stopped"] <= 1

----------------------------------------------------------------------------
\* Stored files (checked under ReceiverSpec)

\* C39: a POST /upload that does not complete leaves every file that a
\* completed upload stored in the upload directory as it was.
C39_FailedUploadKeepsStoredFile ==
    [][rLast'.op = "upload-end" /\ rLast'.status # 200 =>
          \A filename \in Filenames :
             uploadDir[filename] # NoFile => uploadDir'[filename] = uploadDir[filename]]_vars

----------------------------------------------------------------------------
\* The selection (checked under CliFlowSpec)

\* C40: the device showDeviceSelectionMenu returns is in the live device set
\* when it is returned.
C40_SelectionIsLive ==
    [][pc = "select" /\ pc' = "code" => choices' \subseteq devices']_vars

====
